---- MODULE Spec2Model ----
(***************************************************************************)
(* Model of the ocspd Updater (package ocspd): the monitored set           *)
(* (statuses, tagToStatus), the scheduling step updateStatus, the single   *)
(* timer and the Start loop that drives UpdateNow.                          *)
(*                                                                         *)
(* Times are integers; time.Time{} (the zero time) is 0 and the wall clock *)
(* starts at T0, far after it.  Durations are integers in the same unit.   *)
(* Statuses are heap objects named by an id, because tagToStatus and       *)
(* statuses hold pointers to them.  Tag strings are named by their rank in *)
(* lexical order (sort.Strings order).  AddOrUpdate, Remove, UpdateNow,    *)
(* Start (startTimer) and Stop hold the mutex u.mu for their whole body    *)
(* and are single actions.  The Start goroutine is in its select whenever  *)
(* a timer is set: one turn of its loop (receive from u.timer.C, then      *)
(* UpdateNow) is the action UpdateNow("loop", ...).  The steps between the *)
(* loop's receive and UpdateNow taking the mutex, and the hand-over on     *)
(* u.done, are not told apart in Spec, which is about the state the        *)
(* operations leave when they return; SpecLoop tells them apart.           *)
(* SpecEvents follows the goroutines of the OnUpdate handler and the       *)
(* arrays behind the Tags slices; SpecCalls applies updateStatus,          *)
(* needsRefresh, Fetch, CreateRequest and one turn of update-ocsp's loop   *)
(* to arguments of their own.                                              *)
(***************************************************************************)
EXTENDS Integers, Sequences, FiniteSets, TLC

\* ------------------------------------------------------------------ bounds
TickRound == 2
MaxAsapRetries == 1
MaxTicks == 2
NumTags == 2
MaxSeed == 1
MaxSpan == 8
MaxEvents == 2

\* time.NewTimer(math.MaxInt64): a deadline that never comes
Never == -1

Zero == 0
\* the wall clock at construction: later than any zero-based schedule
T0 == (MaxAsapRetries + 1) * TickRound
MaxTime == T0 + MaxTicks

Tags == 1..NumTags
StatusIds == 1..NumTags
NoStatus == 0
Seeds == 0..MaxSeed

\* ------------------------------------------------------------------ values

\* Request: url and body (nil body selects GET); CreateRequest yields either
\* a GET url with no body or the responder url with the DER body.
NilBody == [isNil |-> TRUE, bytes |-> <<>>]
Body(b) == [isNil |-> FALSE, bytes |-> b]
Requests ==
    { [url |-> "u/req", body |-> NilBody],
      [url |-> "u", body |-> Body(<<1>>)] }

\* Response: OCSPResponse (possibly nil) with its NextUpdate, and MaxAge.
NilResponse == [isNil |-> TRUE, hasOCSP |-> FALSE, NextUpdate |-> Zero, MaxAge |-> Zero]
Response(hasOCSP, nu, maxAge) ==
    [isNil |-> FALSE, hasOCSP |-> hasOCSP, NextUpdate |-> nu, MaxAge |-> maxAge]

\* OCSP NextUpdate values of the responses: none, one close to the start of
\* the run, one far ahead
NearNextUpdate == T0 + 1
FarNextUpdate == T0 + 4 * TickRound
\* an HTTP cache expiry within the run
SomeMaxAge == T0 + 1

\* what Fetch returns as a new response in this model (parseResponse always
\* sets OCSPResponse): one without NextUpdate, one that expires soon, one
\* whose HTTP cache entry expires before the OCSP response does
FetchedResponses ==
    { Response(TRUE, Zero, Zero), Response(TRUE, NearNextUpdate, Zero),
      Response(TRUE, FarNextUpdate, SomeMaxAge) }
\* what a caller passes to AddOrUpdate in this model: nil or a parsed cached response
CachedResponses == { NilResponse, Response(TRUE, FarNextUpdate, Zero) }

NilStatus == [Request |-> [url |-> "", body |-> NilBody], Response |-> NilResponse,
              NextUpdate |-> Zero, Tags |-> <<>>]

NilTimer == [set |-> FALSE, armed |-> FALSE, deadline |-> Never]
\* a timer after timer.Stop() or after it fired
StoppedTimer == [set |-> TRUE, armed |-> FALSE, deadline |-> Never]

VARIABLES
    now,          \* the wall clock, fetcher.now()
    heap,         \* id -> ocspStatus object
    statuses,     \* u.statuses: sequence of status ids
    tagToStatus,  \* u.tagToStatus: tag -> status id, NoStatus when absent
    timer,        \* u.timer: nil, or a timer with its armed flag and deadline
    timerC,       \* u.timer.C holds a fire (channel of capacity 1)
    crashed,      \* a panic ended the process
    last,         \* history: the step just taken
    sweep,        \* history: the last UpdateNow, while less than TickRound has
                  \* passed and no other operation was called since
    call,         \* a function of the package called on its own: its
                  \* arguments and what it returned
    pc,           \* where the goroutine in Start's loop and a caller of Stop
                  \* are, and who holds u.mu, when the steps inside Start
                  \* and Stop are told apart
    ev            \* the goroutines spawned by u.onUpdate with their events,
                  \* the order in which the handler got them, and the arrays
                  \* behind the Tags slices, when events are followed

\* what the Updater's operations do not touch
aux == <<call, pc, ev>>

vars == <<now, heap, statuses, tagToStatus, timer, timerC, crashed, last, sweep,
          call, pc, ev>>

\* ------------------------------------------------------------------ helpers

Range(s) == { s[i] : i \in 1..Len(s) }

RemoveAt(s, i) == SubSeq(s, 1, i - 1) \o SubSeq(s, i + 1, Len(s))

\* Go's integer division truncates toward zero
GoDiv(a, b) == IF a >= 0 THEN a \div b ELSE -((-a) \div b)

\* Truncate that leaves the time as it is (a mutation of Truncate)
TruncateNever(t, d) == t

\* time.Time.Truncate: round down to a multiple of d since the zero time
Truncate(t, d) == IF d <= 0 THEN t ELSE t - (t % d)

\* sort.Strings on a tag list
RECURSIVE SortStrings(_)
SortStrings(tags) ==
    IF Len(tags) = 0 THEN <<>>
    ELSE LET m == CHOOSE i \in 1..Len(tags) : \A j \in 1..Len(tags) : tags[i] <= tags[j]
         IN <<tags[m]>> \o SortStrings(RemoveAt(tags, m))

\* ocspStatuses.Less
Less(hp, a, b) == hp[a].NextUpdate < hp[b].NextUpdate

\* sort.Sort(u.statuses): insertion sort (the algorithm sort.Sort runs on
\* slices this short), each element moving left while it is Less
RECURSIVE InsertSorted(_, _, _)
InsertSorted(hp, sorted, x) ==
    IF Len(sorted) > 0 /\ Less(hp, x, sorted[Len(sorted)])
    THEN Append(InsertSorted(hp, SubSeq(sorted, 1, Len(sorted) - 1), x), sorted[Len(sorted)])
    ELSE Append(sorted, x)

RECURSIVE SortStatuses(_, _)
SortStatuses(hp, sts) ==
    IF Len(sts) <= 1 THEN sts
    ELSE InsertSorted(hp, SortStatuses(hp, SubSeq(sts, 1, Len(sts) - 1)), sts[Len(sts)])

requestEqualGetNever(a, b) ==
    a.url = b.url /\ ~a.body.isNil /\ ~b.body.isNil /\ a.body.bytes = b.body.bytes

\* requestEqual that takes every two requests for the same (a mutation of requestEqual)
requestEqualAlways(a, b) == TRUE

requestEqual(a, b) ==
    /\ a.url = b.url
    /\ (a.body.isNil) = (b.body.isNil)
    /\ a.body.bytes = b.body.bytes

\* isStarted that takes every Updater for a running one (a mutation of isStarted)
isStartedAlways(tm) == TRUE

isStarted(tm) == tm.set

\* defaultRand: rand.Int63n(d) panics when d <= 0, else a value in [0, d)
randPanics(d) == d <= 0
rand(d, seed) == seed % d

\* ------------------------------------------------------------------ pure steps

\* The Updater's guarded state as one value, so that operations compose
Updater(hp, sts, idxOf, tm) ==
    [heap |-> hp, statuses |-> sts, tagToStatus |-> idxOf, timer |-> tm]

\* updateStatus taking the whole distance to the response's NextUpdate where
\* updateStatus takes half of it (a mutation of updateStatus)
updateStatusNoHalving(s, r, seed) ==
    LET s1 == IF ~r.isNil THEN [s EXCEPT !.Response = r] ELSE s
        respNil == r.isNil \/ ~r.hasOCSP
        maxAge == IF ~r.isNil THEN r.MaxAge ELSE Zero
    IN  IF maxAge # Zero /\ (respNil \/ maxAge < r.NextUpdate)
        THEN [panic |-> FALSE, s |-> [s1 EXCEPT !.NextUpdate = maxAge]]
        ELSE IF ~respNil
        THEN IF r.NextUpdate < now
             THEN [panic |-> FALSE, s |-> [s1 EXCEPT !.NextUpdate = Zero]]
             ELSE LET earliest == now + TickRound
                      h == r.NextUpdate - earliest
                  IN  IF randPanics(h)
                      THEN [panic |-> TRUE, s |-> s1]
                      ELSE [panic |-> FALSE,
                            s |-> [s1 EXCEPT !.NextUpdate =
                                      Truncate(earliest + (h + rand(h, seed)), TickRound)]]
        ELSE IF s1.Response.isNil
        THEN [panic |-> FALSE, s |-> [s1 EXCEPT !.NextUpdate = Zero]]
        ELSE [panic |-> FALSE, s |-> s1]

\* updateStatus pushing the schedule back by TickRound where updateStatus
\* leaves it alone (a mutation of updateStatus)
updateStatusPostpones(s, r, seed) ==
    LET s1 == IF ~r.isNil THEN [s EXCEPT !.Response = r] ELSE s
        respNil == r.isNil \/ ~r.hasOCSP
        maxAge == IF ~r.isNil THEN r.MaxAge ELSE Zero
    IN  IF maxAge # Zero /\ (respNil \/ maxAge < r.NextUpdate)
        THEN [panic |-> FALSE, s |-> [s1 EXCEPT !.NextUpdate = maxAge]]
        ELSE IF ~respNil
        THEN IF r.NextUpdate < now
             THEN [panic |-> FALSE, s |-> [s1 EXCEPT !.NextUpdate = Zero]]
             ELSE LET earliest == now + TickRound
                      h == GoDiv(r.NextUpdate - earliest, 2)
                  IN  IF randPanics(h)
                      THEN [panic |-> TRUE, s |-> s1]
                      ELSE [panic |-> FALSE,
                            s |-> [s1 EXCEPT !.NextUpdate =
                                      Truncate(earliest + (h + rand(h, seed)), TickRound)]]
        ELSE IF s1.Response.isNil
        THEN [panic |-> FALSE, s |-> [s1 EXCEPT !.NextUpdate = Zero]]
        ELSE [panic |-> FALSE, s |-> [s1 EXCEPT !.NextUpdate = @ + TickRound]]

\* Updater.updateStatus(s, r) with the value `seed` drawn by u.rand.
\* Returns the status, and whether u.rand panicked on the way.
updateStatus(s, r, seed) ==
    LET s1 == IF ~r.isNil THEN [s EXCEPT !.Response = r] ELSE s
        respNil == r.isNil \/ ~r.hasOCSP
        maxAge == IF ~r.isNil THEN r.MaxAge ELSE Zero
    IN  IF maxAge # Zero /\ (respNil \/ maxAge < r.NextUpdate)
        THEN [panic |-> FALSE, s |-> [s1 EXCEPT !.NextUpdate = maxAge]]
        ELSE IF ~respNil
        THEN IF r.NextUpdate < now
             THEN [panic |-> FALSE, s |-> [s1 EXCEPT !.NextUpdate = Zero]]
             ELSE LET earliest == now + TickRound
                      h == GoDiv(r.NextUpdate - earliest, 2)
                  IN  IF randPanics(h)
                      THEN [panic |-> TRUE, s |-> s1]
                      ELSE [panic |-> FALSE,
                            s |-> [s1 EXCEPT !.NextUpdate =
                                      Truncate(earliest + (h + rand(h, seed)), TickRound)]]
        ELSE IF s1.Response.isNil
        THEN [panic |-> FALSE, s |-> [s1 EXCEPT !.NextUpdate = Zero]]
        ELSE [panic |-> FALSE, s |-> s1]

\* Updater.resetTimer without the sort (a mutation of resetTimer)
resetTimerNoSort(u) ==
    IF ~isStarted(u.timer) THEN u
    ELSE IF Len(u.statuses) = 0 THEN [u EXCEPT !.timer = StoppedTimer]
    ELSE [u EXCEPT !.timer = [set |-> TRUE, armed |-> TRUE,
                              deadline |-> now + (u.heap[u.statuses[1]].NextUpdate - now)]]

\* resetTimer that sets and arms a timer on a stopped Updater too (a mutation
\* of resetTimer)
resetTimerAnyway(u) ==
    IF Len(u.statuses) = 0 THEN [u EXCEPT !.timer = StoppedTimer]
    ELSE LET sorted == SortStatuses(u.heap, u.statuses)
             d == u.heap[sorted[1]].NextUpdate - now
         IN  [u EXCEPT !.statuses = sorted,
                       !.timer = [set |-> TRUE, armed |-> TRUE, deadline |-> now + d]]

\* Updater.resetTimer: timer.Stop() disarms, timer.Reset(d) arms at now + d
resetTimer(u) ==
    IF ~isStarted(u.timer) THEN u
    ELSE IF Len(u.statuses) = 0 THEN [u EXCEPT !.timer = StoppedTimer]
    ELSE LET sorted == SortStatuses(u.heap, u.statuses)
             d == u.heap[sorted[1]].NextUpdate - now
         IN  [u EXCEPT !.statuses = sorted,
                       !.timer = [set |-> TRUE, armed |-> TRUE, deadline |-> now + d]]

\* Event{Response, RawResponse, Tags}: the response stands for both its parsed
\* and raw form; id names the status the event is about (history only)
Event(id, resp, tags) == [id |-> id, Response |-> resp, Tags |-> tags]

\* ids of the heap no pointer refers to
FreeIds(u) ==
    { i \in StatusIds : i \notin Range(u.statuses)
                        /\ \A t \in Tags : u.tagToStatus[t] # i }

\* the first status of u.statuses with an equivalent request, 0 if none
FindByRequest(u, req) ==
    LET hits == { i \in 1..Len(u.statuses) : requestEqual(req, u.heap[u.statuses[i]].Request) }
    IN  IF hits = {} THEN 0 ELSE CHOOSE i \in hits : \A j \in hits : i <= j

Result(panic, err, u, emitted) ==
    [panic |-> panic, err |-> err, u |-> u, emitted |-> emitted]

\* Updater.AddOrUpdate(tag, req, resp); newId is the address of the status
\* it allocates when it needs one
AddOrUpdateOp(u, tag, req, resp, seed, newId) ==
    LET cur == u.tagToStatus[tag] IN
    IF cur # NoStatus
    THEN IF ~requestEqual(req, u.heap[cur].Request)
         THEN Result(FALSE, "ErrDuplicateTag", u, <<>>)
         ELSE LET upd == updateStatus(u.heap[cur], resp, seed)
              IN  IF upd.panic THEN Result(TRUE, "", u, <<>>)
                  ELSE Result(FALSE, "",
                              resetTimer([u EXCEPT !.heap[cur] = upd.s]), <<>>)
    ELSE LET i == FindByRequest(u, req) IN
         IF i # 0
         THEN LET id == u.statuses[i]
                  s1 == [u.heap[id] EXCEPT !.Tags = SortStrings(Append(@, tag))]
                  upd == updateStatus(s1, resp, seed)
                  emitted == IF resp.isNil /\ ~upd.s.Response.isNil /\ isStarted(u.timer)
                             THEN <<Event(id, upd.s.Response, upd.s.Tags)>>
                             ELSE <<>>
              IN  IF upd.panic THEN Result(TRUE, "", u, <<>>)
                  ELSE Result(FALSE, "",
                              resetTimer([u EXCEPT !.heap[id] = upd.s,
                                                   !.tagToStatus[tag] = id]),
                              emitted)
         ELSE LET s0 == [Request |-> req, Response |-> NilResponse,
                         NextUpdate |-> Zero, Tags |-> <<tag>>]
                  upd == updateStatus(s0, resp, seed)
              IN  IF upd.panic THEN Result(TRUE, "", u, <<>>)
                  ELSE Result(FALSE, "",
                              resetTimer([u EXCEPT !.heap[newId] = upd.s,
                                                   !.statuses = Append(@, newId),
                                                   !.tagToStatus[tag] = newId]),
                              <<>>)

\* a tag removal that drops the last tag of the list (a mutation of removeTag)
removeTagLast(tags, tag) == SubSeq(tags, 1, Len(tags) - 1)

\* the tag removal of Remove: drop the first occurrence of tag
removeTag(tags, tag) ==
    LET hits == { i \in 1..Len(tags) : tags[i] = tag }
    IN  IF hits = {} THEN tags
        ELSE RemoveAt(tags, CHOOSE i \in hits : \A j \in hits : i <= j)

\* the status removal of Remove: drop the first occurrence of the pointer
removeStatus(sts, id) ==
    LET hits == { i \in 1..Len(sts) : sts[i] = id }
    IN  IF hits = {} THEN sts
        ELSE RemoveAt(sts, CHOOSE i \in hits : \A j \in hits : i <= j)

\* Remove that takes the status out of the schedule with any of its tags (a
\* mutation of RemoveOp)
RemoveOpDropsStatus(u, tag) ==
    LET id == u.tagToStatus[tag] IN
    IF id = NoStatus THEN u
    ELSE resetTimer([u EXCEPT !.tagToStatus[tag] = NoStatus,
                              !.heap[id].Tags = removeTag(@, tag),
                              !.statuses = removeStatus(@, id)])

\* Remove that leaves a status without tags in the schedule (a mutation of RemoveOp)
RemoveOpKeepsEmpty(u, tag) ==
    LET id == u.tagToStatus[tag] IN
    IF id = NoStatus THEN u
    ELSE resetTimer([u EXCEPT !.tagToStatus[tag] = NoStatus,
                              !.heap[id].Tags = removeTag(@, tag)])

\* Updater.Remove(tag)
RemoveOp(u, tag) ==
    LET id == u.tagToStatus[tag] IN
    IF id = NoStatus THEN u
    ELSE LET tags == removeTag(u.heap[id].Tags, tag)
             u1 == [u EXCEPT !.tagToStatus[tag] = NoStatus, !.heap[id].Tags = tags]
             u2 == IF Len(tags) = 0
                   THEN [u1 EXCEPT !.statuses = removeStatus(@, id), !.heap[id] = NilStatus]
                   ELSE u1
         IN  resetTimer(u2)

\* the failure branch of UpdateNow, from the clock (a mutation of onFetchError)
onFetchErrorFromNow(s) == [s EXCEPT !.NextUpdate = now + TickRound]

\* the failure branch of UpdateNow: s.NextUpdate = s.NextUpdate.Add(u.TickRound)
onFetchError(s) == [s EXCEPT !.NextUpdate = @ + TickRound]

\* one iteration of UpdateNow's loop on status id, the fetch having ended with
\* outcome "err", "notmodified" (nil, nil) or "new" (r, nil)
FetchStep(u, id, outcome, r, seed) ==
    IF outcome = "err"
    THEN Result(FALSE, "err", [u EXCEPT !.heap[id] = onFetchError(@)], <<>>)
    ELSE LET rr == IF outcome = "new" THEN r ELSE NilResponse
             upd == updateStatus(u.heap[id], rr, seed)
         IN  IF upd.panic THEN Result(TRUE, "", u, <<>>)
             ELSE Result(FALSE, "", [u EXCEPT !.heap[id] = upd.s],
                         IF ~rr.isNil THEN <<Event(id, rr, upd.s.Tags)>> ELSE <<>>)

\* what a fetch of UpdateNow ends with: an error, (nil, nil) or (r, nil)
Choice(outcome, r, seed) == [outcome |-> outcome, r |-> r, seed |-> seed]

\* the statuses the range loop of UpdateNow visits: those before the first
\* one scheduled after now
RECURSIVE DuePrefix(_, _)
DuePrefix(u, i) ==
    IF i > Len(u.statuses) THEN i - 1
    ELSE IF u.heap[u.statuses[i]].NextUpdate > now THEN i - 1
    ELSE DuePrefix(u, i + 1)

\* a loop that visits a status again while a failed fetch leaves it due (a
\* mutation of SweepLoop)
RECURSIVE SweepLoopRevisits(_, _, _, _, _)
SweepLoopRevisits(u, i, choices, emitted, log) ==
    IF i > Len(u.statuses)
    THEN [panic |-> FALSE, u |-> u, emitted |-> emitted, log |-> log]
    ELSE IF u.heap[u.statuses[i]].NextUpdate > now
    THEN [panic |-> FALSE, u |-> u, emitted |-> emitted, log |-> log]
    ELSE LET id == u.statuses[i]
             c == choices[i]
             res == FetchStep(u, id, c.outcome, c.r, c.seed)
             entry == [id |-> id, outcome |-> c.outcome]
             again == c.outcome = "err" /\ res.u.heap[id].NextUpdate <= now
         IN  IF res.panic
             THEN [panic |-> TRUE, u |-> u, emitted |-> emitted, log |-> Append(log, entry)]
             ELSE SweepLoopRevisits(res.u, IF again THEN i ELSE i + 1, choices,
                                    emitted \o res.emitted, Append(log, entry))

\* the range loop of UpdateNow from position i, the fetches ending as choices
\* says; log keeps, per fetch, the status fetched and how the fetch ended
RECURSIVE SweepLoop(_, _, _, _, _)
SweepLoop(u, i, choices, emitted, log) ==
    IF i > Len(u.statuses)
    THEN [panic |-> FALSE, u |-> u, emitted |-> emitted, log |-> log]
    ELSE IF u.heap[u.statuses[i]].NextUpdate > now
    THEN [panic |-> FALSE, u |-> u, emitted |-> emitted, log |-> log]
    ELSE LET id == u.statuses[i]
             c == choices[i]
             res == FetchStep(u, id, c.outcome, c.r, c.seed)
             entry == [id |-> id, outcome |-> c.outcome]
         IN  IF res.panic
             THEN [panic |-> TRUE, u |-> u, emitted |-> emitted, log |-> Append(log, entry)]
             ELSE SweepLoop(res.u, i + 1, choices, emitted \o res.emitted,
                            Append(log, entry))

\* Updater.UpdateNow
UpdateNowOp(u, choices) ==
    LET res == SweepLoop(u, 1, choices, <<>>, <<>>)
    IN  IF res.panic THEN res ELSE [res EXCEPT !.u = resetTimer(res.u)]

\* ------------------------------------------------------------------ state machine

U == Updater(heap, statuses, tagToStatus, timer)

NoSweep == [who |-> "none", at |-> Never, due |-> {}, log |-> <<>>]

\* emitted: the events the step handed to u.onUpdate, a handler being set
\* (cmd/ocspd sets OnUpdate before it starts the Updater)
Last(op, tag, id, emitted, ret) ==
    [op |-> op, tag |-> tag, id |-> id, emitted |-> emitted, ret |-> ret]

\* a step no history is kept of
Other == Last("", 0, NoStatus, <<>>, "")

\* no function called on its own
NoCall == [fn |-> ""]

\* no event emitted, no Tags slice allocated
NoEvents == [spawned |-> <<>>, received |-> <<>>, arr |-> [i \in StatusIds |-> <<>>]]

\* nobody in Start's loop, nobody in Stop, u.mu free
NoLoop == [loop |-> "idle", stop |-> "idle", caller |-> "idle", mu |-> "", loops |-> 0]

\* NewUpdater: nothing monitored, no timer, nobody in Start
NewUpdater ==
    /\ heap = [i \in StatusIds |-> NilStatus]
    /\ statuses = <<>>
    /\ tagToStatus = [t \in Tags |-> NoStatus]
    /\ timer = NilTimer
    /\ timerC = FALSE
    /\ crashed = FALSE
    /\ last = Other
    /\ sweep = NoSweep

\* the clock starts at T0
Init ==
    /\ now = T0
    /\ NewUpdater
    /\ call = NoCall
    /\ pc = NoLoop
    /\ ev = NoEvents

\* a panic nobody recovers ends the process: what the Updater held in memory
\* is gone with it, what it had emitted before is not
Panic(op, tag, emitted, sw) ==
    /\ crashed' = TRUE
    /\ last' = Last(op, tag, NoStatus, emitted, "panic")
    /\ sweep' = sw
    /\ UNCHANGED <<now, heap, statuses, tagToStatus, timer, timerC>>

Install(u) ==
    /\ heap' = u.heap
    /\ statuses' = u.statuses
    /\ tagToStatus' = u.tagToStatus
    /\ timer' = u.timer

\* time passes
Tick ==
    /\ ~crashed
    /\ now < MaxTime
    /\ now' = now + 1
    /\ last' = Other
    /\ sweep' = IF sweep.at # Never /\ now + 1 < sweep.at + TickRound THEN sweep ELSE NoSweep
    /\ UNCHANGED <<heap, statuses, tagToStatus, timer, timerC, crashed>>

\* the runtime fires the armed timer once its deadline has come
TimerFire ==
    /\ ~crashed
    /\ timer.set /\ timer.armed /\ timer.deadline # Never
    /\ now >= timer.deadline
    /\ timer' = StoppedTimer
    /\ timerC' = TRUE
    /\ last' = Other
    /\ UNCHANGED <<now, heap, statuses, tagToStatus, crashed, sweep>>

\* u.rand is only reached by the midpoint rule of updateStatus
UsesRand(r) ==
    /\ ~r.isNil /\ r.hasOCSP
    /\ ~(r.MaxAge # Zero /\ r.MaxAge < r.NextUpdate)
    /\ ~(r.NextUpdate < now)
SeedsFor(r) == IF UsesRand(r) THEN Seeds ELSE {0}

\* the address of the next status object
NewId(u) ==
    IF FreeIds(u) = {} THEN NoStatus
    ELSE CHOOSE i \in FreeIds(u) : \A j \in FreeIds(u) : i <= j

AddOrUpdate(tag, req, resp, seed) ==
    /\ ~crashed
    /\ (tagToStatus[tag] = NoStatus /\ FindByRequest(U, req) = 0) => NewId(U) # NoStatus
    /\ LET res == AddOrUpdateOp(U, tag, req, resp, seed, NewId(U))
       IN  IF res.panic
           THEN Panic("AddOrUpdate", tag, <<>>, NoSweep)
           ELSE /\ Install(res.u)
                /\ last' = Last("AddOrUpdate", tag, res.u.tagToStatus[tag],
                                res.emitted, res.err)
                /\ sweep' = NoSweep
                /\ UNCHANGED <<now, timerC, crashed>>

Remove(tag) ==
    /\ ~crashed
    /\ LET u == RemoveOp(U, tag)
       IN  /\ Install(u)
           /\ last' = Last("Remove", tag, tagToStatus[tag], <<>>, "")
    /\ sweep' = NoSweep
    /\ UNCHANGED <<now, timerC, crashed>>

\* Start that sets a new timer whether or not the Updater is started (a
\* mutation of Start)
StartReplacesTimer ==
    /\ ~crashed
    /\ Install(resetTimer([U EXCEPT !.timer =
                              [set |-> TRUE, armed |-> TRUE, deadline |-> Never]]))
    /\ timerC' = FALSE
    /\ last' = Last("Start", 0, NoStatus, <<>>, "")
    /\ sweep' = NoSweep
    /\ UNCHANGED <<now, crashed>>

\* Start: startTimer, then the caller is the loop; a no-op when already started
Start ==
    /\ ~crashed
    /\ IF isStarted(timer)
       THEN /\ last' = Last("Start", 0, NoStatus, <<>>, "noop")
            /\ UNCHANGED <<heap, statuses, tagToStatus, timer, timerC>>
       ELSE /\ Install(resetTimer([U EXCEPT !.timer =
                                      [set |-> TRUE, armed |-> TRUE, deadline |-> Never]]))
            /\ timerC' = FALSE
            /\ last' = Last("Start", 0, NoStatus, <<>>, "")
    /\ sweep' = NoSweep
    /\ UNCHANGED <<now, crashed>>

\* Stop: timer.Stop(), u.timer = nil, and the loop leaves on u.done
Stop ==
    /\ ~crashed
    /\ IF ~isStarted(timer)
       THEN /\ last' = Last("Stop", 0, NoStatus, <<>>, "noop")
            /\ UNCHANGED <<timer, timerC>>
       ELSE /\ timer' = NilTimer
            /\ timerC' = FALSE
            /\ last' = Last("Stop", 0, NoStatus, <<>>, "")
    /\ sweep' = NoSweep
    /\ UNCHANGED <<now, heap, statuses, tagToStatus, crashed>>

\* the statuses UpdateNow has to fetch: those not scheduled after now
DueNow == { i \in Range(statuses) : ~(heap[i].NextUpdate > now) }

\* a zero-based schedule stays in the distant past: the retries that would
\* carry it up to the clock are not modelled
RetryInRange(s) == s.NextUpdate >= T0 \/ s.NextUpdate + TickRound < T0

\* a 304 answers a conditional request, which takes the Etag or LastModified
\* of a stored response
Revalidates(s) == ~s.Response.isNil

Choices ==
    { Choice("err", NilResponse, 0), Choice("notmodified", NilResponse, 0) }
    \cup { Choice("new", r, 0) : r \in FetchedResponses }
    \cup { Choice("new", r, seed) : r \in { x \in FetchedResponses : UsesRand(x) },
                                    seed \in Seeds }

\* UpdateNow, called by the loop on a fire of the timer (who = "loop") or by
\* anyone else ("caller")
UpdateNow(who, choices) ==
    /\ ~crashed
    /\ who = "loop" => isStarted(timer) /\ timerC
    /\ \A i \in DOMAIN choices :
          /\ choices[i].outcome = "err" => RetryInRange(heap[statuses[i]])
          /\ choices[i].outcome = "notmodified" => Revalidates(heap[statuses[i]])
    /\ LET res == UpdateNowOp(U, choices)
           sw == [who |-> who, at |-> now, due |-> DueNow, log |-> res.log]
       IN  IF res.panic
           THEN Panic("UpdateNow", 0, res.emitted, sw)
           ELSE /\ Install(res.u)
                /\ timerC' = IF who = "loop" THEN FALSE ELSE timerC
                /\ sweep' = sw
                /\ last' = Last("UpdateNow", 0, NoStatus, res.emitted, who)
                /\ UNCHANGED <<now, crashed>>

Next ==
    \/ Tick /\ UNCHANGED aux
    \/ TimerFire /\ UNCHANGED aux
    \/ \E tag \in Tags, req \in Requests, resp \in CachedResponses :
          \E seed \in SeedsFor(resp) :
             AddOrUpdate(tag, req, resp, seed) /\ UNCHANGED aux
    \/ \E tag \in Tags : Remove(tag) /\ UNCHANGED aux
    \/ Start /\ UNCHANGED aux
    \/ Stop /\ UNCHANGED aux
    \/ \E who \in {"loop", "caller"} :
          \E choices \in [1..DuePrefix(U, 1) -> Choices] :
             UpdateNow(who, choices) /\ UNCHANGED aux

Spec == Init /\ [][Next]_vars

\* ------------------------------------------------------------------ functions called on their own

\* the times a call is given: none, or up to MaxSpan after the start of the clock
CallTimes == {Zero} \cup (T0 .. T0 + MaxSpan)

\* a response valid for four days with TickRound of one hour, and cache
\* headers that expire after six hours
LongNextUpdate == T0 + 96 * TickRound
ShortMaxAge == T0 + 6 * TickRound

\* the responses updateStatus is given: nil, one without OCSP data, one with
CallResponses ==
    {NilResponse}
    \cup { Response(FALSE, Zero, ma) : ma \in CallTimes }
    \cup { Response(TRUE, nu, ma) : nu \in CallTimes, ma \in CallTimes }
    \cup { Response(TRUE, LongNextUpdate, ma) : ma \in {Zero, ShortMaxAge} }

\* the statuses updateStatus is given: new or rescheduled, with or without a
\* stored response
CallStatuses ==
    { [Request |-> req, Response |-> p, NextUpdate |-> nu, Tags |-> <<1>>] :
         req \in { x \in Requests : x.body.isNil },
         p \in {NilResponse, Response(TRUE, FarNextUpdate, Zero)},
         nu \in {Zero, T0 + TickRound} }

\* what u.rand may draw: enough seeds to reach every value below the largest h
JitterFor(r) == IF UsesRand(r) THEN 0..MaxSpan ELSE {0}

\* needsRefresh without the look ahead by one period (a mutation of needsRefresh)
needsRefreshNoPeriod(resp, mtime, period, t) ==
    IF resp.NextUpdate = Zero \/ resp.NextUpdate < t THEN TRUE
    ELSE LET h == resp.ThisUpdate + GoDiv(resp.NextUpdate - resp.ThisUpdate, 2)
         IN  IF h > t THEN FALSE
             ELSE IF h > mtime THEN TRUE
             ELSE FALSE

\* needsRefresh that does not look at the time of the last refresh (a
\* mutation of needsRefresh)
needsRefreshNoMtime(resp, mtime, period, t) ==
    IF resp.NextUpdate = Zero \/ resp.NextUpdate < t THEN TRUE
    ELSE IF t + period > resp.NextUpdate THEN TRUE
    ELSE LET h == resp.ThisUpdate + GoDiv(resp.NextUpdate - resp.ThisUpdate, 2)
         IN  IF h > t THEN FALSE
             ELSE TRUE

\* needsRefresh(resp, mtime, period, now)
needsRefresh(resp, mtime, period, t) ==
    IF resp.NextUpdate = Zero \/ resp.NextUpdate < t THEN TRUE
    ELSE IF t + period > resp.NextUpdate THEN TRUE
    ELSE LET h == resp.ThisUpdate + GoDiv(resp.NextUpdate - resp.ThisUpdate, 2)
         IN  IF h > t THEN FALSE
             ELSE IF h > mtime THEN TRUE
             ELSE FALSE

\* the OCSP responses NeedsRefresh is given: produced before the end of the
\* run, with or without NextUpdate
OCSPResponses ==
    { [ThisUpdate |-> tu, NextUpdate |-> nu] : tu \in 1..MaxTime, nu \in 0..(T0 + MaxSpan) }

\* any clock of the run, a new Updater, nothing called yet
InitCalls ==
    /\ now \in T0..MaxTime
    /\ NewUpdater
    /\ call = NoCall
    /\ pc = NoLoop
    /\ ev = NoEvents

\* u.updateStatus(s, r)
CallUpdateStatus(s, r, seed) ==
    /\ call = NoCall
    /\ call' = [fn |-> "updateStatus", s |-> s, r |-> r, seed |-> seed,
                out |-> updateStatus(s, r, seed)]
    /\ UNCHANGED <<now, heap, statuses, tagToStatus, timer, timerC, crashed, last, sweep, pc, ev>>

\* NeedsRefresh(resp, mtime, period), the file last written at mtime (zero
\* when unknown)
CallNeedsRefresh(resp, mtime, period) ==
    /\ call = NoCall
    /\ call' = [fn |-> "needsRefresh", resp |-> resp, mtime |-> mtime, period |-> period,
                out |-> needsRefresh(resp, mtime, period, now)]
    /\ UNCHANGED <<now, heap, statuses, tagToStatus, timer, timerC, crashed, last, sweep, pc, ev>>

\* ---- Fetch ----

\* the Content-Type headers an answer may carry: none, the OCSP media type in
\* two spellings, with a parameter, another type, and one that does not parse
ContentTypes ==
    { "", "application/ocsp-response", "Application/OCSP-Response",
      "application/ocsp-response; charset=utf-8", "text/html",
      "application/ocsp-response; charset" }

\* mime.ParseMediaType(v): the media type in lower case, the number of
\* parameters, and the error of a header that does not parse
ParseMediaType(v) ==
    CASE v = "application/ocsp-response" ->
           [ct |-> "application/ocsp-response", params |-> 0, err |-> ""]
      [] v = "Application/OCSP-Response" ->
           [ct |-> "application/ocsp-response", params |-> 0, err |-> ""]
      [] v = "application/ocsp-response; charset=utf-8" ->
           [ct |-> "application/ocsp-response", params |-> 1, err |-> ""]
      [] v = "text/html" ->
           [ct |-> "text/html", params |-> 0, err |-> ""]
      [] OTHER ->
           [ct |-> "", params |-> 0, err |-> "mime: invalid media parameter"]

\* what client.Do gives: a transport error, or an HTTP answer with its status,
\* Content-Type, body (OCSP data that verifies, or not) and the NextUpdate and
\* MaxAge read from it
NoAnswer == [failed |-> TRUE, status |-> 0, contentType |-> "", body |-> "",
             NextUpdate |-> Zero, MaxAge |-> Zero]
Answer(status, contentType, body, nu) ==
    [failed |-> FALSE, status |-> status, contentType |-> contentType, body |-> body,
     NextUpdate |-> nu, MaxAge |-> Zero]

\* a NextUpdate that has passed at any clock of the run
StaleNextUpdate == T0 - 1

Answers ==
    {NoAnswer, Answer(304, "", "", Zero), Answer(500, "text/html", "garbage", Zero)}
    \cup { Answer(200, c, "ocsp", FarNextUpdate) : c \in ContentTypes }
    \cup { Answer(200, "application/ocsp-response", "garbage", Zero) }
    \cup { Answer(200, "application/ocsp-response", "ocsp", nu) : nu \in {Zero, StaleNextUpdate} }

\* the outcome of parseResponse and of Fetch: err is "" for a nil error
Parsed(resp, err) == [resp |-> resp, err |-> err]

\* parseResponse without the check of the parameters (a mutation of parseResponse)
parseResponseAnyParameter(a) ==
    IF a.status = 304 THEN Parsed(NilResponse, "")
    ELSE IF a.status # 200 THEN Parsed(NilResponse, "BadHTTPStatus")
    ELSE IF a.contentType = "" THEN Parsed(NilResponse, "NoContentType")
    ELSE LET m == ParseMediaType(a.contentType)
         IN  IF m.err # "" THEN Parsed(NilResponse, m.err)
             ELSE IF m.ct # "application/ocsp-response"
             THEN Parsed(NilResponse, "BadContentType")
             ELSE IF a.body # "ocsp" THEN Parsed(NilResponse, "ocsp: error parsing response")
             ELSE Parsed(Response(TRUE, a.NextUpdate, a.MaxAge), "")

\* parseResponse(resp, issuer, now)
parseResponse(a) ==
    IF a.status = 304 THEN Parsed(NilResponse, "")
    ELSE IF a.status # 200 THEN Parsed(NilResponse, "BadHTTPStatus")
    ELSE IF a.contentType = "" THEN Parsed(NilResponse, "NoContentType")
    ELSE LET m == ParseMediaType(a.contentType)
         IN  IF m.err # "" THEN Parsed(NilResponse, m.err)
             ELSE IF m.ct # "application/ocsp-response" \/ m.params > 0
             THEN Parsed(NilResponse, "BadContentType")
             ELSE IF a.body # "ocsp" THEN Parsed(NilResponse, "ocsp: error parsing response")
             ELSE Parsed(Response(TRUE, a.NextUpdate, a.MaxAge), "")

\* the requests Fetch is given: a Request with the earlier NotAfter of its two
\* certificates, and a URL that http.NewRequest takes or not
FetchRequests ==
    { [url |-> r.url, body |-> r.body, notAfter |-> na, urlOk |-> ok] :
         r \in Requests, na \in {T0, FarNextUpdate}, ok \in BOOLEAN }

\* Request.createHTTPRequest: the method and the error of http.NewRequest
createHTTPRequest(req) ==
    [method |-> IF req.body.isNil THEN "GET" ELSE "POST",
     err |-> IF req.urlOk THEN "" ELSE "net/url: invalid URL"]

\* what Fetch returns and the HTTP requests it has sent, each with its
\* Cache-Control header
Fetched3(resp, err, sent) == [resp |-> resp, err |-> err, sent |-> sent]
Plain == [noCache |-> FALSE]
NoCache == [noCache |-> TRUE]

\* Fetch that sends its first request whatever req.notAfter (a mutation of Fetch)
FetchExpired(req, nextUpdate, first, second, t) ==
    LET h == createHTTPRequest(req)
        p == parseResponse(first)
    IN  IF first.failed THEN Fetched3(NilResponse, "connect", <<Plain>>)
        ELSE IF t > req.notAfter THEN Fetched3(NilResponse, "CertExpired", <<Plain>>)
        ELSE Fetched3(p.resp, p.err, <<Plain>>)

\* Fetch that retries whatever the NextUpdate (a mutation of Fetch)
FetchAlwaysRetries(req, nextUpdate, first, second, t) ==
    LET h == createHTTPRequest(req)
        p == parseResponse(first)
        q == parseResponse(second)
    IN  IF t > req.notAfter THEN Fetched3(NilResponse, "CertExpired", <<>>)
        ELSE IF h.err # "" THEN Fetched3(NilResponse, h.err, <<>>)
        ELSE IF first.failed THEN Fetched3(NilResponse, "connect", <<Plain>>)
        ELSE IF p.err # "" THEN Fetched3(p.resp, p.err, <<Plain>>)
        ELSE IF second.failed THEN Fetched3(p.resp, "", <<Plain, NoCache>>)
        ELSE Fetched3(q.resp, q.err, <<Plain, NoCache>>)

\* Fetcher.Fetch(req, etag, lastModified, nextUpdate) at time t, first and
\* second being what client.Do gives to the first and to the second request
Fetch(req, nextUpdate, first, second, t) ==
    LET h == createHTTPRequest(req)
        p == parseResponse(first)
        nu == IF ~p.resp.isNil THEN p.resp.NextUpdate ELSE nextUpdate
        q == parseResponse(second)
    IN  IF t > req.notAfter THEN Fetched3(NilResponse, "CertExpired", <<>>)
        ELSE IF h.err # "" THEN Fetched3(NilResponse, h.err, <<>>)
        ELSE IF first.failed THEN Fetched3(NilResponse, "connect", <<Plain>>)
        ELSE IF p.err # "" THEN Fetched3(p.resp, p.err, <<Plain>>)
        ELSE IF h.method = "GET" /\ nu # Zero /\ nu < t
        THEN IF second.failed
             THEN Fetched3(p.resp, "", <<Plain, NoCache>>)
             ELSE Fetched3(q.resp, q.err, <<Plain, NoCache>>)
        ELSE Fetched3(p.resp, p.err, <<Plain>>)

\* Fetcher.FetchR(req, prev): the NextUpdate of the previous response
FetchR(req, prev, first, second, t) ==
    Fetch(req, IF ~prev.isNil /\ prev.hasOCSP THEN prev.NextUpdate ELSE Zero,
          first, second, t)

\* the previous responses FetchR is given: none, one that is stale, one that
\* is not
PreviousResponses ==
    {NilResponse, Response(TRUE, StaleNextUpdate, Zero), Response(TRUE, FarNextUpdate, Zero)}

\* FetchR(req, prev), the client answering first and then second
CallFetch(req, prev, first, second) ==
    /\ call = NoCall
    /\ call' = [fn |-> "Fetch", req |-> req, prev |-> prev,
                first |-> first, second |-> second,
                out |-> FetchR(req, prev, first, second, now)]
    /\ UNCHANGED <<now, heap, statuses, tagToStatus, timer, timerC, crashed, last, sweep, pc, ev>>

\* ---- CreateRequest ----

\* the entries of a certificate's OCSPServer extension: the text, its length,
\* whether its first seven or eight bytes spell http:// or https:// whatever
\* the case, and whether url.Parse takes it
Server(text, len, http, https, parses) ==
    [text |-> text, len |-> len, http |-> http, https |-> https, parses |-> parses]
Servers ==
    { Server("http://a.example", 16, TRUE, FALSE, TRUE),
      Server("HTTPS://b.example", 17, FALSE, TRUE, TRUE),
      Server("ldap://c.example", 16, FALSE, FALSE, TRUE),
      Server("http://%zz", 10, TRUE, FALSE, FALSE),
      Server("ldap:/", 6, FALSE, FALSE, TRUE) }

\* the result of ResponderURL: the URL, the error ("" for nil), or a panic
Responder(url, err, panic) == [url |-> url, err |-> err, panic |-> panic]

\* ResponderURL(cert), from the i-th entry of cert.OCSPServer on; slicing an
\* entry beyond its length panics
RECURSIVE ResponderURLFrom(_, _)
ResponderURLFrom(servers, i) ==
    IF i > Len(servers) THEN Responder("", "Cannot find an OCSP URL", FALSE)
    ELSE LET s == servers[i]
         IN  IF s.len < 7 THEN Responder("", "", TRUE)
             ELSE IF s.http THEN
                  IF s.parses THEN Responder(s.text, "", FALSE)
                  ELSE Responder("", "net/url: invalid URL", FALSE)
             ELSE IF s.len < 8 THEN Responder("", "", TRUE)
             ELSE IF s.https THEN
                  IF s.parses THEN Responder(s.text, "", FALSE)
                  ELSE Responder("", "net/url: invalid URL", FALSE)
             ELSE ResponderURLFrom(servers, i + 1)

\* ResponderURL(cert)
ResponderURL(cert) == ResponderURLFrom(cert.OCSPServer, 1)

\* the certificates CreateRequest is given: the OCSPServer entries, NotAfter,
\* and the length of the OCSP request once encoded for a GET URL
Certificate(servers, notAfter) ==
    [OCSPServer |-> servers, NotAfter |-> notAfter, encodedLen |-> 100]
ServerLists(n) == UNION { [1..k -> Servers] : k \in 0..n }

\* the responderURL argument: none, a short one and one too long for a GET
GivenURLs ==
    { [text |-> "", len |-> 0],
      [text |-> "http://given.example/", len |-> 21],
      [text |-> "http://given.example/long", len |-> 200] }

\* the result of CreateRequest
Created(req, err, panic) == [req |-> req, err |-> err, panic |-> panic]
NoRequest == [responder |-> "", encoded |-> FALSE, body |-> NilBody, notAfter |-> Zero]

\* the Request built for a responder URL of length len: a GET when the URL
\* with the encoded request fits in 255 bytes, a POST otherwise
BuildRequest(cert, issuer, text, len) ==
    LET notAfter == IF issuer.NotAfter < cert.NotAfter THEN issuer.NotAfter
                    ELSE cert.NotAfter
    IN  IF len + 1 + cert.encodedLen <= 255
        THEN [responder |-> text, encoded |-> TRUE, body |-> NilBody, notAfter |-> notAfter]
        ELSE [responder |-> text, encoded |-> FALSE, body |-> Body(<<1>>),
              notAfter |-> notAfter]

\* the length of a server entry, by its text
LenOf(cert, text) ==
    LET k == CHOOSE k \in 1..Len(cert.OCSPServer) : cert.OCSPServer[k].text = text
    IN  cert.OCSPServer[k].len

\* CreateRequest(cert, issuer, responderURL)
CreateRequest(cert, issuer, given) ==
    IF given.text # "" THEN Created(BuildRequest(cert, issuer, given.text, given.len), "", FALSE)
    ELSE LET a == ResponderURL(cert)
         IN  IF a.panic \/ a.err # "" THEN Created(NoRequest, a.err, a.panic)
             ELSE IF a.url = ""
             THEN LET b == ResponderURL(issuer)
                  IN  IF b.panic \/ b.err # "" THEN Created(NoRequest, b.err, b.panic)
                      ELSE Created(BuildRequest(cert, issuer, b.url, LenOf(issuer, b.url)),
                                   "", FALSE)
             ELSE Created(BuildRequest(cert, issuer, a.url, LenOf(cert, a.url)), "", FALSE)

\* CreateRequest(cert, issuer, responderURL)
CallCreateRequest(cert, issuer, given) ==
    /\ call = NoCall
    /\ call' = [fn |-> "CreateRequest", cert |-> cert, issuer |-> issuer, given |-> given,
                out |-> CreateRequest(cert, issuer, given)]
    /\ UNCHANGED <<now, heap, statuses, tagToStatus, timer, timerC, crashed, last, sweep, pc, ev>>

\* ---- update-ocsp ----

\* the <bundle>.ocsp file: absent, or there with what ReadFile and
\* ocsp.ParseResponse make of it and its modification time
NoFile == [exists |-> FALSE, readable |-> FALSE, parses |-> FALSE,
           ocsp |-> [ThisUpdate |-> Zero, NextUpdate |-> Zero], mtime |-> Zero]
File(readable, parses, ocsp, mtime) ==
    [exists |-> TRUE, readable |-> readable, parses |-> parses, ocsp |-> ocsp,
     mtime |-> mtime]
Files ==
    { NoFile,
      File(FALSE, FALSE, [ThisUpdate |-> Zero, NextUpdate |-> Zero], StaleNextUpdate),
      File(TRUE, FALSE, [ThisUpdate |-> Zero, NextUpdate |-> Zero], StaleNextUpdate) }
    \cup { File(TRUE, TRUE, [ThisUpdate |-> 1, NextUpdate |-> nu], mtime) :
              nu \in {Zero, StaleNextUpdate, T0 + 1, T0 + MaxSpan},
              mtime \in {1, StaleNextUpdate} }

\* the result of NeedsRefreshFile
Refresh(needs, resp, err) == [needs |-> needs, resp |-> resp, err |-> err]

\* NeedsRefreshFile(filename, issuer, period) at time t
NeedsRefreshFile(file, period, t) ==
    IF ~file.exists THEN Refresh(TRUE, NilResponse, "stat: no such file or directory")
    ELSE IF ~file.readable THEN Refresh(TRUE, NilResponse, "open: permission denied")
    ELSE IF ~file.parses THEN Refresh(TRUE, NilResponse, "ocsp: error parsing response")
    ELSE Refresh(needsRefresh(file.ocsp, file.mtime, period, t),
                 Response(TRUE, file.ocsp.NextUpdate, Zero), "")

\* the input bundles: a file that parses as a certificate and its issuer or
\* not, the certificate with or without a responder URL
Bundle(parses, servers) ==
    [parses |-> parses, cert |-> Certificate(servers, FarNextUpdate),
     issuer |-> Certificate(<<>>, FarNextUpdate)]
Bundles ==
    { Bundle(ok, servers) :
         ok \in BOOLEAN,
         servers \in { <<>>, <<Server("http://a.example", 16, TRUE, FALSE, TRUE)>> } }

\* what one turn of update-ocsp's loop has done: the HTTP requests sent, the
\* response written to <bundle>.ocsp, whether the file's times were set, and
\* whether exitCode was set to 1
Turn(sent, stored, touched, failed) ==
    [sent |-> sent, stored |-> stored, touched |-> touched, failed |-> failed]

\* the Request of CreateRequest as Fetch reads it
AsFetchRequest(req) ==
    [url |-> req.responder, body |-> req.body, notAfter |-> req.notAfter, urlOk |-> TRUE]

\* one turn of the loop of update-ocsp's main, for one bundle, at time t
UpdateOcsp(bundle, file, period, first, second, t) ==
    IF ~bundle.parses THEN Turn(<<>>, NilResponse, FALSE, TRUE)
    ELSE LET c == CreateRequest(bundle.cert, bundle.issuer, [text |-> "", len |-> 0])
             n == NeedsRefreshFile(file, period, t)
             f == FetchR(AsFetchRequest(c.req), n.resp, first, second, t)
         IN  IF c.panic \/ c.err # "" THEN Turn(<<>>, NilResponse, FALSE, TRUE)
             ELSE IF n.err # "" THEN Turn(<<>>, NilResponse, FALSE, TRUE)
             ELSE IF ~n.needs THEN Turn(<<>>, NilResponse, FALSE, FALSE)
             ELSE IF f.err # "" THEN Turn(f.sent, NilResponse, FALSE, TRUE)
             ELSE IF f.resp.isNil THEN Turn(f.sent, NilResponse, TRUE, FALSE)
             ELSE Turn(f.sent, f.resp, FALSE, FALSE)

\* the periods update-ocsp is run with
Periods == {Zero, TickRound}

\* what the responder gives to a second request
RetryAnswers == {NoAnswer, Answer(200, "application/ocsp-response", "ocsp", FarNextUpdate)}

\* update-ocsp for one bundle
CallUpdateOcsp(bundle, file, period, first, second) ==
    /\ call = NoCall
    /\ call' = [fn |-> "update-ocsp", bundle |-> bundle, file |-> file, period |-> period,
                first |-> first, second |-> second,
                out |-> UpdateOcsp(bundle, file, period, first, second, now)]
    /\ UNCHANGED <<now, heap, statuses, tagToStatus, timer, timerC, crashed, last, sweep, pc, ev>>

\* ---- NeedsRefresh, check after check ----

\* the response that is checked again and again, the periods between two
\* checks and the time its file was last written before the first check
CheckedResponses ==
    { [ThisUpdate |-> tu, NextUpdate |-> nu] :
         tu \in {1, T0}, nu \in (T0 + 1)..(T0 + MaxSpan) }
CheckPeriods == 1..(2 * TickRound)
FirstMtimes == {Zero, 1, T0 - 1}

\* one check at time t of a run of checks: NeedsRefresh(resp, mtime, period),
\* and the file's time set to t when it returns true
Checked(c, t) ==
    LET needs == needsRefresh(c.resp, c.mtime, c.period, t)
    IN  [c EXCEPT !.at = t,
                  !.seen = Append(@, t),
                  !.trues = IF needs THEN Append(@, t) ELSE @,
                  !.mtime = IF needs THEN t ELSE @]

\* the first check, at now
CallFirstCheck(resp, mtime, period) ==
    /\ call = NoCall
    /\ call' = Checked([fn |-> "checks", resp |-> resp, period |-> period,
                        mtime |-> mtime, at |-> now, seen |-> <<>>, trues |-> <<>>], now)
    /\ UNCHANGED <<now, heap, statuses, tagToStatus, timer, timerC, crashed, last, sweep, pc, ev>>

\* the next check, one period later, as long as the response has not expired
CallNextCheck ==
    /\ call.fn = "checks"
    /\ call.at + call.period <= call.resp.NextUpdate
    /\ call' = Checked(call, call.at + call.period)
    /\ UNCHANGED <<now, heap, statuses, tagToStatus, timer, timerC, crashed, last, sweep, pc, ev>>

NextCalls ==
    \/ \E s \in CallStatuses, r \in CallResponses :
          \E seed \in JitterFor(r) : CallUpdateStatus(s, r, seed)
    \/ \E resp \in OCSPResponses, mtime \in 0..MaxTime, period \in 0..MaxSpan :
          CallNeedsRefresh(resp, mtime, period)
    \/ \E req \in FetchRequests, prev \in PreviousResponses, first \in Answers, second \in Answers :
          CallFetch(req, prev, first, second)
    \/ \E ls \in ServerLists(2), is \in ServerLists(1), given \in GivenURLs :
          \E na \in {<<T0, FarNextUpdate>>, <<FarNextUpdate, T0>>} :
             CallCreateRequest(Certificate(ls, na[1]), Certificate(is, na[2]), given)
    \/ \E bundle \in Bundles, file \in Files, period \in Periods :
          \E first \in Answers, second \in RetryAnswers :
             CallUpdateOcsp(bundle, file, period, first, second)
    \/ \E resp \in CheckedResponses, mtime \in FirstMtimes, period \in CheckPeriods :
          CallFirstCheck(resp, mtime, period)
    \/ CallNextCheck

SpecCalls == InitCalls /\ [][NextCalls]_vars

\* ------------------------------------------------------------------ the steps inside Start and Stop

\* One goroutine runs Start's loop and one calls Stop, step by step: the loop
\* evaluates u.timer.C and waits in its select, receives a fire, takes u.mu
\* in UpdateNow, sweeps and releases; Stop is called, takes u.mu, sets
\* u.timer to nil and sends on the unbuffered u.done with u.mu held.
\* AddOrUpdate and Remove take and release u.mu within one step.

\* the callers of this part monitor one certificate
LoopTags == {1}
LoopRequests == { r \in Requests : r.body.isNil }

\* a mutex that never makes anybody wait (a mutation of Unlocked)
UnlockedAlways == TRUE

\* u.mu.Lock() returns: nobody holds u.mu
Unlocked == pc.mu = ""

\* AddOrUpdate and Remove of a caller: u.mu is free
LoopAddOrUpdate(tag, req, resp, seed) ==
    /\ Unlocked
    /\ AddOrUpdate(tag, req, resp, seed)
    /\ UNCHANGED aux

LoopRemove(tag) ==
    /\ Unlocked
    /\ Remove(tag)
    /\ UNCHANGED aux

\* Start: startTimer under u.mu; the caller of a stopped Updater goes on to
\* the loop, the caller of a started one returns
StartCall ==
    /\ Unlocked
    /\ Start
    /\ pc' = IF isStarted(timer) THEN pc
             ELSE [pc EXCEPT !.loop = "eval", !.loops = @ + 1]
    /\ UNCHANGED <<call, ev>>

\* the loop enters its select: it reads u.timer, without u.mu, for the
\* channel u.timer.C.  After Stop has set u.timer to nil the read races with
\* that write: it sees nil, a nil pointer dereference, or it sees the timer
\* Stop has stopped and the loop waits on that timer's channel
LoopEval ==
    /\ ~crashed
    /\ pc.loop = "eval"
    /\ \/ /\ isStarted(timer)
          /\ pc' = [pc EXCEPT !.loop = "select"]
          /\ last' = Other
          /\ UNCHANGED crashed
       \/ /\ ~isStarted(timer)
          /\ crashed' = TRUE
          /\ last' = Last("loop", 0, NoStatus, <<>>, "panic")
          /\ UNCHANGED pc
       \/ /\ ~isStarted(timer)
          /\ pc' = [pc EXCEPT !.loop = "select"]
          /\ last' = Other
          /\ UNCHANGED crashed
    /\ UNCHANGED <<now, heap, statuses, tagToStatus, timer, timerC, sweep, call, ev>>

\* case <-u.timer.C
LoopRecvTimer ==
    /\ ~crashed
    /\ pc.loop = "select"
    /\ timerC
    /\ timerC' = FALSE
    /\ pc' = [pc EXCEPT !.loop = "lock"]
    /\ last' = Other
    /\ UNCHANGED <<now, heap, statuses, tagToStatus, timer, crashed, sweep, call, ev>>

\* u.UpdateNow(): u.mu.Lock()
LoopLock ==
    /\ ~crashed
    /\ pc.loop = "lock"
    /\ Unlocked
    /\ pc' = [pc EXCEPT !.loop = "sweep", !.mu = "loop"]
    /\ last' = Other
    /\ UNCHANGED <<now, heap, statuses, tagToStatus, timer, timerC, crashed, sweep, call, ev>>

\* u.UpdateNow(): the sweep and the deferred u.mu.Unlock()
LoopSweep(choices) ==
    /\ pc.loop = "sweep"
    /\ UpdateNow("run", choices)
    /\ pc' = [pc EXCEPT !.loop = "eval", !.mu = ""]
    /\ UNCHANGED <<call, ev>>

\* somebody else calls UpdateNow, which waits for u.mu
CallerCall ==
    /\ ~crashed
    /\ pc.caller = "idle"
    /\ pc' = [pc EXCEPT !.caller = "lock"]
    /\ last' = Other
    /\ UNCHANGED <<now, heap, statuses, tagToStatus, timer, timerC, crashed, sweep, call, ev>>

\* the caller's UpdateNow: u.mu.Lock()
CallerLock ==
    /\ ~crashed
    /\ pc.caller = "lock"
    /\ Unlocked
    /\ pc' = [pc EXCEPT !.caller = "sweep", !.mu = "caller"]
    /\ last' = Other
    /\ UNCHANGED <<now, heap, statuses, tagToStatus, timer, timerC, crashed, sweep, call, ev>>

\* the caller's UpdateNow: the sweep and the deferred u.mu.Unlock()
CallerSweep(choices) ==
    /\ pc.caller = "sweep"
    /\ UpdateNow("caller", choices)
    /\ pc' = [pc EXCEPT !.caller = "idle", !.mu = ""]
    /\ UNCHANGED <<call, ev>>

\* somebody calls Stop, which waits for u.mu
StopCall ==
    /\ ~crashed
    /\ pc.stop = "idle"
    /\ pc' = [pc EXCEPT !.stop = "lock"]
    /\ last' = Other
    /\ UNCHANGED <<now, heap, statuses, tagToStatus, timer, timerC, crashed, sweep, call, ev>>

\* Stop has u.mu: it returns if the Updater is not started, else it stops
\* the timer, sets u.timer to nil and goes on to send on u.done
StopLock ==
    /\ ~crashed
    /\ pc.stop = "lock"
    /\ Unlocked
    /\ IF ~isStarted(timer)
       THEN /\ pc' = [pc EXCEPT !.stop = "idle"]
            /\ last' = Last("Stop", 0, NoStatus, <<>>, "noop")
            /\ UNCHANGED timer
       ELSE /\ pc' = [pc EXCEPT !.stop = "send", !.mu = "stop"]
            /\ last' = Other
            /\ timer' = NilTimer
    /\ sweep' = NoSweep
    /\ UNCHANGED <<now, heap, statuses, tagToStatus, timerC, crashed, call, ev>>

\* u.done <- struct{}{} meets case <-u.done of the loop in its select: the
\* loop returns from Start, Stop returns and releases u.mu
StopSend ==
    /\ ~crashed
    /\ pc.stop = "send"
    /\ pc.loop = "select"
    /\ pc' = [pc EXCEPT !.stop = "idle", !.mu = "", !.loop = "idle", !.loops = @ - 1]
    /\ last' = Last("Stop", 0, NoStatus, <<>>, "")
    /\ UNCHANGED <<now, heap, statuses, tagToStatus, timer, timerC, crashed, sweep, call, ev>>

\* the steps of the goroutine in Start's loop, and of the caller of Stop
LoopSteps ==
    \/ LoopEval
    \/ LoopRecvTimer
    \/ LoopLock
    \/ \E choices \in [1..DuePrefix(U, 1) -> Choices] : LoopSweep(choices)
StopSteps ==
    \/ StopLock
    \/ StopSend
CallerSteps ==
    \/ CallerLock
    \/ \E choices \in [1..DuePrefix(U, 1) -> Choices] : CallerSweep(choices)

NextLoop ==
    \/ Tick /\ UNCHANGED aux
    \/ TimerFire /\ UNCHANGED aux
    \/ \E tag \in LoopTags, req \in LoopRequests, resp \in CachedResponses :
          \E seed \in SeedsFor(resp) :
             LoopAddOrUpdate(tag, req, resp, seed)
    \/ \E tag \in LoopTags : LoopRemove(tag)
    \/ StartCall
    \/ LoopEval
    \/ LoopRecvTimer
    \/ LoopLock
    \/ \E choices \in [1..DuePrefix(U, 1) -> Choices] : LoopSweep(choices)
    \/ StopCall
    \/ StopLock
    \/ StopSend
    \/ CallerCall
    \/ CallerLock
    \/ \E choices \in [1..DuePrefix(U, 1) -> Choices] : CallerSweep(choices)

\* the Go scheduler runs every goroutine that can take a step, and u.mu
\* hands over to a goroutine that keeps waiting for it
SpecLoop ==
    /\ Init
    /\ [][NextLoop]_vars
    /\ SF_vars(LoopSteps)
    /\ SF_vars(StopSteps)
    /\ SF_vars(CallerSteps)

\* ------------------------------------------------------------------ a running Updater nobody stops

\* Start's loop runs, nobody calls Stop, and callers keep adding, replacing
\* and removing certificates: each tag has its certificate, so each tag's
\* request is its own
RunRequest(tag) ==
    IF tag = 1
    THEN CHOOSE r \in Requests : r.body.isNil
    ELSE CHOOSE r \in Requests : ~r.body.isNil

RunAddOrUpdate(tag, resp, seed) == LoopAddOrUpdate(tag, RunRequest(tag), resp, seed)

NextRun ==
    \/ Tick /\ UNCHANGED aux
    \/ TimerFire /\ UNCHANGED aux
    \/ \E tag \in Tags, resp \in CachedResponses :
          \E seed \in SeedsFor(resp) :
             RunAddOrUpdate(tag, resp, seed)
    \/ \E tag \in Tags : LoopRemove(tag)
    \/ StartCall
    \/ LoopEval
    \/ LoopRecvTimer
    \/ LoopLock
    \/ \E choices \in [1..DuePrefix(U, 1) -> Choices] : LoopSweep(choices)

\* the Go runtime fires a timer whose deadline has come, and the scheduler
\* runs the loop's goroutine whenever it can take a step; Fetch returns, so
\* a sweep that has u.mu ends
SpecRun ==
    /\ Init
    /\ [][NextRun]_vars
    /\ WF_vars(TimerFire /\ UNCHANGED aux)
    /\ SF_vars(LoopSteps)

\* ------------------------------------------------------------------ events and the Tags slices

\* u.onUpdate starts a goroutine per event (go u.OnUpdate(event)); the Go
\* scheduler runs them in any order.  An Event holds the slice s.Tags: the
\* same array as the status, with the length it had at the emission.  arr is,
\* per status, the array behind s.Tags (its length is the capacity of the
\* slice); view is what the handler reads through the Event's slice now.

\* the empty string of a cell never written
NoTag == 0

\* append's growth of a full slice of strings this short: twice the capacity
GrowCap(c) == 2 * c

Pad(cells, c) == cells \o [k \in 1..(c - Len(cells)) |-> NoTag]

\* s.Tags = append(s.Tags, tag); sort.Strings(s.Tags) on the array a whose
\* first n cells are s.Tags: in place when the capacity allows, else in a
\* new array
AppendSort(a, n, tag) ==
    LET tags == SortStrings(Append(SubSeq(a, 1, n), tag))
    IN  IF n < Len(a)
        THEN [arr |-> tags \o SubSeq(a, n + 2, Len(a)), realloc |-> FALSE]
        ELSE [arr |-> Pad(tags, GrowCap(Len(a))), realloc |-> TRUE]

\* s.Tags = append(s.Tags[:i], s.Tags[i+1:]...): the tags after i move one
\* cell down, the cell that was the last one keeps its content
RemoveInPlace(a, n, tag) ==
    LET hits == { i \in 1..n : a[i] = tag }
    IN  IF hits = {} THEN a
        ELSE LET i == CHOOSE x \in hits : \A y \in hits : x <= y
             IN  SubSeq(a, 1, i - 1) \o SubSeq(a, i + 1, n) \o SubSeq(a, n, Len(a))

\* the events after the array of status id was rewritten to a: a slice of
\* that array reads the new content
Rearranged(spawned, id, a) ==
    [k \in 1..Len(spawned) |->
        IF spawned[k].id = id /\ spawned[k].shares
        THEN [spawned[k] EXCEPT !.view = SubSeq(a, 1, Len(spawned[k].Tags))]
        ELSE spawned[k]]

\* the events after status id took a new array: their slices are of the
\* old one, which nobody writes any more
Detached(spawned, id) ==
    [k \in 1..Len(spawned) |->
        IF spawned[k].id = id THEN [spawned[k] EXCEPT !.shares = FALSE] ELSE spawned[k]]

\* the status is monitored no more
Forgotten(spawned, id) ==
    [k \in 1..Len(spawned) |->
        IF spawned[k].id = id
        THEN [spawned[k] EXCEPT !.shares = FALSE, !.live = FALSE]
        ELSE spawned[k]]

\* go u.OnUpdate(event), for each event emitted
Spawn(spawned, emitted) ==
    spawned \o [k \in 1..Len(emitted) |->
                   [id |-> emitted[k].id, Response |-> emitted[k].Response,
                    Tags |-> emitted[k].Tags, view |-> emitted[k].Tags,
                    shares |-> TRUE, live |-> TRUE]]

EvAddOrUpdate(tag, req, resp, seed) ==
    /\ Len(ev.spawned) < MaxEvents
    /\ AddOrUpdate(tag, req, resp, seed)
    /\ LET i == FindByRequest(U, req)
           id == IF i # 0 THEN statuses[i] ELSE NewId(U)
           res == IF i # 0 THEN AppendSort(ev.arr[id], Len(heap[id].Tags), tag)
                  ELSE [arr |-> <<tag>>, realloc |-> TRUE]
       IN  IF crashed' \/ tagToStatus[tag] # NoStatus
           THEN ev' = [ev EXCEPT !.spawned = Spawn(@, last'.emitted)]
           ELSE ev' = [ev EXCEPT !.arr[id] = res.arr,
                                 !.spawned = Spawn(IF res.realloc THEN Detached(@, id)
                                                   ELSE Rearranged(@, id, res.arr),
                                                   last'.emitted)]
    /\ UNCHANGED <<call, pc>>

EvRemove(tag) ==
    /\ Remove(tag)
    /\ LET id == tagToStatus[tag] IN
       IF id = NoStatus THEN UNCHANGED ev
       ELSE LET n == Len(heap[id].Tags)
                a == RemoveInPlace(ev.arr[id], n, tag)
            IN  ev' = [ev EXCEPT
                         !.arr[id] = IF n = 1 THEN <<>> ELSE a,
                         !.spawned = IF n = 1 THEN Forgotten(@, id)
                                     ELSE Rearranged(@, id, a)]
    /\ UNCHANGED <<call, pc>>

EvUpdateNow(choices) ==
    /\ Len(ev.spawned) + Len(choices) <= MaxEvents
    /\ UpdateNow("caller", choices)
    /\ ev' = [ev EXCEPT !.spawned = Spawn(@, last'.emitted)]
    /\ UNCHANGED <<call, pc>>

\* the goroutine of event k runs: the handler gets the event
Deliver(k) ==
    /\ ~crashed
    /\ k \in 1..Len(ev.spawned)
    /\ k \notin Range(ev.received)
    /\ ev' = [ev EXCEPT !.received = Append(@, k)]
    /\ UNCHANGED <<now, heap, statuses, tagToStatus, timer, timerC, crashed, last, sweep,
                   call, pc>>

NextEvents ==
    \/ \E tag \in Tags, req \in LoopRequests, resp \in CachedResponses :
          \E seed \in SeedsFor(resp) :
             EvAddOrUpdate(tag, req, resp, seed)
    \/ \E tag \in Tags : EvRemove(tag)
    \/ Start /\ UNCHANGED aux
    \/ \E choices \in [1..DuePrefix(U, 1) -> Choices] : EvUpdateNow(choices)
    \/ \E k \in 1..MaxEvents : Deliver(k)

SpecEvents == Init /\ [][NextEvents]_vars

\* ------------------------------------------------------------------ claims

\* how often tag t occurs in a tag list
Occurrences(tags, t) == Cardinality({ k \in 1..Len(tags) : tags[k] = t })

\* the operation just called has returned (it did not panic)
Returned(op) == last.op = op /\ last.ret # "panic"

\* C1: the tag index and the statuses are exact inverses in every state: an
\* indexed tag occurs exactly once in the Tags of its status and that status
\* is in statuses; every tag of a status of statuses maps to that status; no
\* status of statuses has an empty tag list.
C1_TagIndexInverse ==
    /\ \A t \in Tags :
          tagToStatus[t] # NoStatus =>
             /\ Occurrences(heap[tagToStatus[t]].Tags, t) = 1
             /\ tagToStatus[t] \in Range(statuses)
    /\ \A i \in 1..Len(statuses) :
          /\ Len(heap[statuses[i]].Tags) > 0
          /\ \A k \in 1..Len(heap[statuses[i]].Tags) :
                tagToStatus[heap[statuses[i]].Tags[k]] = statuses[i]
          /\ \A j \in 1..Len(statuses) : statuses[i] = statuses[j] => i = j

\* C1 witness: Remove has just taken one of two tags from a shared status,
\* which stays monitored under the other tag
C1_Witness ==
    /\ Returned("Remove")
    /\ last.id \in Range(statuses)
    /\ Len(heap[last.id].Tags) = 1
    /\ heap[last.id].Tags[1] # last.tag

\* the equivalence of requests as specified: same url, bodies both absent or
\* byte-equal
Equivalent(a, b) ==
    /\ a.url = b.url
    /\ \/ a.body.isNil /\ b.body.isNil
       \/ ~a.body.isNil /\ ~b.body.isNil /\ a.body.bytes = b.body.bytes

\* C2: no two distinct statuses of statuses have equivalent requests.
C2_NoEquivalentStatuses ==
    \A i, j \in 1..Len(statuses) :
        i # j => ~Equivalent(heap[statuses[i]].Request, heap[statuses[j]].Request)

\* C2 witness: AddOrUpdate has just registered a second tag with a request
\* equivalent to the monitored one, and one status is monitored still
C2_Witness ==
    /\ Returned("AddOrUpdate") /\ last.ret = ""
    /\ Len(heap[last.id].Tags) = 2
    /\ Len(statuses) = 1

\* the statuses a sweep fetched
Fetched(sw) == { sw.log[k].id : k \in 1..Len(sw.log) }

\* C3: when UpdateNow returns it has invoked the Fetcher for every status
\* whose nextUpdate was <= now when it ran, started or not.
C3_UpdateNowFetchesEveryDue ==
    Returned("UpdateNow") => sweep.due \subseteq Fetched(sweep)

\* C4: after every public operation, statuses is sorted by nextUpdate in
\* ascending order (the zero nextUpdate first).
C4_StatusesSorted ==
    last.op \in {"AddOrUpdate", "Remove", "UpdateNow", "Start", "Stop"} /\ last.ret # "panic" =>
        \A i, j \in 1..Len(statuses) :
            i < j => heap[statuses[i]].NextUpdate <= heap[statuses[j]].NextUpdate

\* the smallest nextUpdate over the statuses of a non-empty statuses
MinNextUpdate ==
    CHOOSE m \in { heap[i].NextUpdate : i \in Range(statuses) } :
        \A i \in Range(statuses) : m <= heap[i].NextUpdate

\* the timer of a running Updater follows the schedule
TimerFollowsSchedule ==
    IF statuses = <<>> THEN ~timer.armed
    ELSE timer.armed /\ timer.deadline = MinNextUpdate

\* C5 as written: while the Updater is running, after each of AddOrUpdate,
\* Remove and UpdateNow returns, the timer is armed at the smallest
\* nextUpdate, or is not armed when statuses is empty.
C5_TimerArmedAfterEveryCall ==
    /\ isStarted(timer)
    /\ Returned("AddOrUpdate") \/ Returned("Remove") \/ Returned("UpdateNow")
    => TimerFollowsSchedule

\* C5, amended: while the Updater is running, after UpdateNow returns, after
\* AddOrUpdate returns without error and after Remove of an indexed tag
\* returns, the timer is armed at the smallest nextUpdate, or is not armed
\* when statuses is empty; and in every state of a running Updater an armed
\* timer has the smallest nextUpdate as its deadline.
C5_TimerArmedAfterReschedule ==
    /\ /\ isStarted(timer)
       /\ \/ Returned("AddOrUpdate") /\ last.ret = ""
          \/ Returned("Remove") /\ last.id # NoStatus
          \/ Returned("UpdateNow")
       => TimerFollowsSchedule
    /\ isStarted(timer) /\ timer.armed =>
          statuses # <<>> /\ timer.deadline = MinNextUpdate

\* C5 witness: a sweep of the running Updater has returned with two statuses
\* scheduled at different times, the timer armed at the earlier one
C5_Witness ==
    /\ isStarted(timer) /\ Returned("UpdateNow")
    /\ Len(statuses) = 2
    /\ heap[statuses[1]].NextUpdate < heap[statuses[2]].NextUpdate
    /\ timer.armed /\ timer.deadline = heap[statuses[1]].NextUpdate

\* the events of a list that are about status id
EventsOf(emitted, id) == { k \in 1..Len(emitted) : emitted[k].id = id }

\* C6: in every UpdateNow, a status whose fetch returned a new response gets
\* exactly one event, carrying that response and the tags of the status; a
\* status whose fetch failed or returned 304 gets none and keeps its stored
\* response.
C6_OneEventPerNewResponse ==
    [][ last'.op = "UpdateNow" =>
          \A k \in 1..Len(sweep'.log) :
             LET id == sweep'.log[k].id IN
             IF sweep'.log[k].outcome = "new"
             THEN /\ Cardinality(EventsOf(last'.emitted, id)) = 1
                  /\ \A e \in EventsOf(last'.emitted, id) :
                        /\ last'.emitted[e].Response = heap'[id].Response
                        /\ last'.emitted[e].Tags = heap'[id].Tags
             ELSE /\ EventsOf(last'.emitted, id) = {}
                  /\ heap'[id].Response = heap[id].Response ]_vars

\* C7: when UpdateNow returns, a status whose fetch returned 304 has a
\* nextUpdate other than the one that made it due, and got no event.
C7_NotModifiedReschedules ==
    [][ last'.op = "UpdateNow" /\ last'.ret # "panic" =>
          \A k \in 1..Len(sweep'.log) :
             sweep'.log[k].outcome = "notmodified" =>
                /\ heap'[sweep'.log[k].id].NextUpdate # heap[sweep'.log[k].id].NextUpdate
                /\ EventsOf(last'.emitted, sweep'.log[k].id) = {} ]_vars

\* C8: when UpdateNow returns, a status whose fetch failed has its previous
\* nextUpdate plus TickRound, is still in statuses, and has the request, tags
\* and stored response it had.
C8_FailureDefersByTickRound ==
    [][ last'.op = "UpdateNow" /\ last'.ret # "panic" =>
          \A k \in 1..Len(sweep'.log) :
             sweep'.log[k].outcome = "err" =>
                LET id == sweep'.log[k].id IN
                /\ heap'[id].NextUpdate = heap[id].NextUpdate + TickRound
                /\ id \in Range(statuses')
                /\ heap'[id].Request = heap[id].Request
                /\ heap'[id].Tags = heap[id].Tags
                /\ heap'[id].Response = heap[id].Response ]_vars

\* C8 witness: a sweep has returned in which the fetch of a status holding a
\* response failed, and after which another status comes first
C8_Witness ==
    /\ Returned("UpdateNow")
    /\ Len(statuses) = 2
    /\ \E k \in 1..Len(sweep.log) :
          /\ sweep.log[k].outcome = "err"
          /\ ~heap[sweep.log[k].id].Response.isNil
          /\ statuses[2] = sweep.log[k].id

\* C9: a status whose fetch failed at time t in a timer-driven sweep of a
\* running Updater is not fetched again by the next timer-driven sweep
\* before t + TickRound (sweep is the last sweep, kept while less than
\* TickRound has passed since).
C9_NoRetryBeforeTickRound ==
    [][ last'.op = "UpdateNow" /\ sweep'.who = "loop" /\ sweep.who = "loop" =>
          \A k \in 1..Len(sweep.log) :
             sweep.log[k].outcome = "err" /\ sweep.at + TickRound > now'
                => sweep.log[k].id \notin Fetched(sweep') ]_vars

\* C10: two consecutive timer-driven sweeps of a running Updater are at
\* least TickRound apart.
C10_SweepsTickRoundApart ==
    [][ last'.op = "UpdateNow" /\ sweep'.who = "loop" /\ sweep.who = "loop" =>
          sweep'.at - sweep.at >= TickRound ]_vars

\* C11: whenever updateStatus schedules a status from a response whose OCSP
\* NextUpdate is not before now, the nextUpdate it sets is strictly earlier
\* than that OCSP NextUpdate.
C11_RefreshedBeforeExpiry ==
    /\ call.fn = "updateStatus"
    /\ ~call.out.panic
    /\ ~call.r.isNil /\ call.r.hasOCSP /\ call.r.NextUpdate >= now
    => call.out.s.NextUpdate < call.r.NextUpdate

\* C11 witness: updateStatus has scheduled a status by the midpoint rule with
\* a jitter above zero, later than now + TickRound
C11_Witness ==
    /\ call.fn = "updateStatus"
    /\ ~call.out.panic
    /\ ~call.r.isNil /\ call.r.hasOCSP /\ call.r.MaxAge = Zero
    /\ call.r.NextUpdate = T0 + MaxSpan
    /\ rand(GoDiv(call.r.NextUpdate - (now + TickRound), 2), call.seed) > 0
    /\ call.out.s.NextUpdate > now + TickRound

\* the midpoint of the validity period of an OCSP response
Midpoint(resp) == resp.ThisUpdate + GoDiv(resp.NextUpdate - resp.ThisUpdate, 2)

\* C20: NeedsRefresh returns true if and only if NextUpdate is zero or before
\* now, or now + period is after NextUpdate, or the midpoint h of the
\* validity period satisfies mtime < h <= now.
C20_NeedsRefreshIff ==
    call.fn = "needsRefresh" =>
        (call.out <=>
            \/ call.resp.NextUpdate = Zero
            \/ call.resp.NextUpdate < now
            \/ now + call.period > call.resp.NextUpdate
            \/ call.mtime < Midpoint(call.resp) /\ Midpoint(call.resp) <= now)

\* C20 witness: a response in the second half of its validity period, not
\* expired by the next check and not refreshed since the midpoint, needs a
\* refresh
C20_Witness ==
    /\ call.fn = "needsRefresh"
    /\ call.out
    /\ call.resp.NextUpdate >= now + call.period
    /\ call.period > 0
    /\ call.mtime > Zero /\ call.mtime < Midpoint(call.resp)
    /\ Midpoint(call.resp) < now

\* the calls of AddOrUpdate that find room for the status they may allocate
CanCall(u, tag, req) ==
    (u.tagToStatus[tag] = NoStatus /\ FindByRequest(u, req) = 0) => NewId(u) # NoStatus

\* C16: in every state, AddOrUpdate with an indexed tag and a request not
\* equivalent to the request of that tag's status returns ErrDuplicateTag,
\* leaves statuses, every status, the tag index and the timer as they are
\* and emits no event; and a call that has returned ErrDuplicateTag has
\* emitted nothing.
C16_DuplicateTagChangesNothing ==
    /\ ~crashed =>
          \A tag \in Tags, req \in Requests, resp \in CachedResponses :
             \A seed \in SeedsFor(resp) :
                (/\ tagToStatus[tag] # NoStatus
                 /\ ~Equivalent(req, heap[tagToStatus[tag]].Request))
                => AddOrUpdateOp(U, tag, req, resp, seed, NewId(U))
                      = Result(FALSE, "ErrDuplicateTag", U, <<>>)
    /\ (last.op = "AddOrUpdate" /\ last.ret = "ErrDuplicateTag")
          => last.emitted = <<>> /\ tagToStatus[last.tag] # NoStatus

\* C16 witness: AddOrUpdate has just returned ErrDuplicateTag on a started
\* Updater whose timer is armed for the status of the tag
C16_Witness ==
    /\ last.op = "AddOrUpdate" /\ last.ret = "ErrDuplicateTag"
    /\ isStarted(timer) /\ timer.armed
    /\ tagToStatus[last.tag] \in Range(statuses)
    /\ timer.deadline = heap[tagToStatus[last.tag]].NextUpdate

\* what the claims call the internal state: the statuses in their order, each
\* with its request, response, nextUpdate and tags, and the tag index
Monitored(u) ==
    <<[i \in 1..Len(u.statuses) |-> u.heap[u.statuses[i]]],
      [t \in Tags |-> IF u.tagToStatus[t] = NoStatus THEN NilStatus
                      ELSE u.heap[u.tagToStatus[t]]]>>

\* C17: in every state, for every tag, request, cached response and jitter,
\* a second AddOrUpdate with the same arguments at the same clock leaves the
\* statuses and the tag index as the first call left them.
C17_AddOrUpdateIdempotent ==
    ~crashed =>
       \A tag \in Tags, req \in Requests, resp \in CachedResponses :
          \A seed \in SeedsFor(resp) :
             LET r1 == AddOrUpdateOp(U, tag, req, resp, seed, NewId(U))
             IN  (CanCall(U, tag, req) /\ ~r1.panic) =>
                    LET r2 == AddOrUpdateOp(r1.u, tag, req, resp, seed, NewId(r1.u))
                    IN  /\ ~r2.panic
                        /\ r2.err = r1.err
                        /\ Monitored(r2.u) = Monitored(r1.u)
                        /\ r2.u.statuses = r1.u.statuses
                        /\ r2.u.tagToStatus = r1.u.tagToStatus

\* C17 witness: AddOrUpdate has just returned on a started Updater, for a
\* status with two tags and a stored response, and there is a call with that
\* tag and a response that changes nothing when made again
C17_Witness ==
    /\ last.op = "AddOrUpdate" /\ last.ret = ""
    /\ isStarted(timer)
    /\ last.id \in Range(statuses)
    /\ Len(heap[last.id].Tags) = 2
    /\ ~heap[last.id].Response.isNil
    /\ \E resp \in CachedResponses \ {NilResponse} :
          \E seed \in SeedsFor(resp) :
             AddOrUpdateOp(U, last.tag, heap[last.id].Request, resp, seed, NewId(U))
                = Result(FALSE, "", U, <<>>)

\* the statuses as a set and the tag index, whatever the order of statuses
\* and the addresses of the statuses
MonitoredSet(u) ==
    <<{ u.heap[u.statuses[i]] : i \in 1..Len(u.statuses) },
      [t \in Tags |-> IF u.tagToStatus[t] = NoStatus THEN NilStatus
                      ELSE u.heap[u.tagToStatus[t]]]>>

\* AddOrUpdate(tag, req, resp) then Remove(tag), from u
AddThenRemove(u, tag, req, resp, seed) ==
    RemoveOp(AddOrUpdateOp(u, tag, req, resp, seed, NewId(u)).u, tag)

\* C18 as stated: in every state, for every tag not registered, AddOrUpdate
\* then Remove of that tag leaves the set of statuses (requests, responses,
\* nextUpdate, tags) and the tag index as they were before the two calls,
\* whether or not the request is equivalent to a monitored one.
C18_AddThenRemoveRestores ==
    ~crashed =>
       \A tag \in Tags, req \in Requests, resp \in CachedResponses :
          \A seed \in SeedsFor(resp) :
             (/\ tagToStatus[tag] = NoStatus
              /\ CanCall(U, tag, req)
              /\ ~AddOrUpdateOp(U, tag, req, resp, seed, NewId(U)).panic)
             => MonitoredSet(AddThenRemove(U, tag, req, resp, seed)) = MonitoredSet(U)

\* C18 amended: in every state, for every tag not registered, AddOrUpdate
\* then Remove of that tag leaves the set of statuses and the tag index as
\* they were when the request is equivalent to no monitored request; when it
\* is equivalent to the request of a monitored status, they are as they were
\* but for that status, which keeps its request and tags and has the response
\* and nextUpdate that updateStatus gave it from the cached response.
C18_AddThenRemoveKeepsReschedule ==
    ~crashed =>
       \A tag \in Tags, req \in Requests, resp \in CachedResponses :
          \A seed \in SeedsFor(resp) :
             (/\ tagToStatus[tag] = NoStatus
              /\ CanCall(U, tag, req)
              /\ ~AddOrUpdateOp(U, tag, req, resp, seed, NewId(U)).panic)
             => LET after == AddThenRemove(U, tag, req, resp, seed)
                    same == { i \in 1..Len(statuses) :
                                 Equivalent(req, heap[statuses[i]].Request) }
                IN  IF same = {}
                    THEN MonitoredSet(after) = MonitoredSet(U)
                    ELSE LET id == statuses[CHOOSE i \in same : TRUE]
                             upd == updateStatus(heap[id], resp, seed).s
                         IN  /\ MonitoredSet(after) =
                                   MonitoredSet([U EXCEPT !.heap[id] = upd])
                             /\ after.heap[id].Request = heap[id].Request
                             /\ after.heap[id].Tags = heap[id].Tags

\* C18 witness: Remove has just taken a tag away from a status that stays
\* monitored with a stored response, and registering that tag again with an
\* equivalent request and another response, then removing it, leaves the
\* status with the other response
C18_Witness ==
    /\ Returned("Remove")
    /\ tagToStatus[last.tag] = NoStatus
    /\ last.id \in Range(statuses)
    /\ ~heap[last.id].Response.isNil
    /\ \E resp \in CachedResponses \ {NilResponse, heap[last.id].Response} :
          \E seed \in SeedsFor(resp) :
             LET r1 == AddOrUpdateOp(U, last.tag, heap[last.id].Request, resp, seed, NewId(U))
             IN  /\ ~r1.panic
                 /\ RemoveOp(r1.u, last.tag).heap[last.id].Response = resp

\* a tag list is in sort.Strings order, no tag twice
Sorted(tags) == \A i, j \in 1..Len(tags) : i < j => tags[i] < tags[j]

\* tags without tag, in the order of tags
Without(tags, tag) == SelectSeq(tags, LAMBDA x : x # tag)

\* C19: in every state, two tags registered with equivalent requests have
\* one status, whose Tags hold both in sorted order; Remove of a tag of a
\* status with other tags keeps the status in statuses with the other tags,
\* its response and nextUpdate unchanged; Remove of the only tag of a status
\* takes it out of statuses; and Remove takes no other status out.
C19_SharedStatusSurvivesRemove ==
    /\ \A i \in 1..Len(statuses) : Sorted(heap[statuses[i]].Tags)
    /\ \A t1, t2 \in Tags :
          (/\ t1 # t2
           /\ tagToStatus[t1] # NoStatus /\ tagToStatus[t2] # NoStatus
           /\ Equivalent(heap[tagToStatus[t1]].Request, heap[tagToStatus[t2]].Request))
          => /\ tagToStatus[t1] = tagToStatus[t2]
             /\ {t1, t2} \subseteq Range(heap[tagToStatus[t1]].Tags)
    /\ ~crashed =>
          \A tag \in Tags :
             tagToStatus[tag] # NoStatus =>
                LET id == tagToStatus[tag]
                    u == RemoveOp(U, tag)
                IN  /\ Range(u.statuses) \ {id} = Range(statuses) \ {id}
                    /\ IF Len(heap[id].Tags) > 1
                       THEN /\ id \in Range(u.statuses)
                            /\ u.heap[id].Tags = Without(heap[id].Tags, tag)
                            /\ u.heap[id].Response = heap[id].Response
                            /\ u.heap[id].NextUpdate = heap[id].NextUpdate
                            /\ u.heap[id].Request = heap[id].Request
                       ELSE id \notin Range(u.statuses)
    /\ (Returned("Remove") /\ last.id # NoStatus)
          => (last.id \in Range(statuses) <=> heap[last.id].Tags # <<>>)

\* C19 witness: on a started Updater, Remove has just taken the first of the
\* two tags of a status with a stored response, and the status is monitored
\* under the second tag
C19_Witness ==
    /\ Returned("Remove")
    /\ isStarted(timer)
    /\ last.id \in Range(statuses)
    /\ heap[last.id].Tags = <<NumTags>>
    /\ last.tag < NumTags
    /\ ~heap[last.id].Response.isNil

\* C12: whenever Stop, called on a running Updater, has taken the mutex and
\* set the timer to nil, Stop eventually returns and the goroutine in Start's
\* loop eventually returns from Start, whatever the timer and the loop's
\* sweeps do in between (a process that a panic has ended is let off here:
\* the statement is about Stop and the loop waiting for each other).
C12_StopAndStartReturn ==
    (pc.stop = "send") ~> ((pc.stop = "idle" /\ pc.loops = 0) \/ crashed)

\* C13 as stated: at most one goroutine is in Start's loop; a Start on a
\* started Updater returns at once and leaves the timer, its channel and the
\* loop as they are; a Start on a stopped Updater leaves the timer armed and
\* its caller in the loop.
C13_StartArmsTimer ==
    /\ [](pc.loops <= 1)
    /\ [][ (last'.op = "Start" /\ last'.ret # "panic") =>
              IF isStarted(timer)
              THEN /\ last'.ret = "noop"
                   /\ timer' = timer /\ timerC' = timerC
                   /\ pc' = pc
              ELSE /\ isStarted(timer') /\ timer'.armed
                   /\ pc'.loop = "eval" /\ pc'.loops = pc.loops + 1 ]_vars

\* C13 amended: at most one goroutine is in Start's loop; a Start on a
\* started Updater returns at once and leaves the timer, its channel, the
\* statuses and the loop as they are; a Start on a stopped Updater sets a
\* timer, armed at the smallest nextUpdate when statuses is non-empty and not
\* armed when it is empty, and leaves its caller in the loop.
C13_StartIdempotent ==
    /\ [](pc.loops <= 1)
    /\ [][ (last'.op = "Start" /\ last'.ret # "panic") =>
              IF isStarted(timer)
              THEN /\ last'.ret = "noop"
                   /\ timer' = timer /\ timerC' = timerC
                   /\ heap' = heap /\ statuses' = statuses
                   /\ pc' = pc
              ELSE /\ isStarted(timer')
                   /\ IF statuses' = <<>> THEN ~timer'.armed
                      ELSE /\ timer'.armed
                           /\ \A i \in Range(statuses') :
                                 timer'.deadline <= heap'[i].NextUpdate
                           /\ \E i \in Range(statuses') :
                                 timer'.deadline = heap'[i].NextUpdate
                   /\ pc'.loop = "eval" /\ pc.loops = 0 /\ pc'.loops = 1 ]_vars

\* C13 witness: Start has just returned at once on a started Updater whose
\* loop waits in its select for the armed timer
C13_Witness ==
    /\ last.op = "Start" /\ last.ret = "noop"
    /\ pc.loop = "select" /\ pc.loops = 1
    /\ isStarted(timer) /\ timer.armed
    /\ statuses # <<>>

\* the array behind s.Tags holds the tags of every monitored status
TagsInArray ==
    \A i \in Range(statuses) :
        /\ Len(ev.arr[i]) >= Len(heap[i].Tags)
        /\ SubSeq(ev.arr[i], 1, Len(heap[i].Tags)) = heap[i].Tags

\* C14: the handler gets the events of a monitored status in the order of
\* its refreshes: of two events of one status that the handler has got, it
\* got the earlier emitted one first.
C14_EventsInRefreshOrder ==
    \A i, j \in 1..Len(ev.received) :
        (/\ i < j
         /\ ev.spawned[ev.received[i]].id = ev.spawned[ev.received[j]].id
         /\ ev.spawned[ev.received[i]].live /\ ev.spawned[ev.received[j]].live)
        => ev.received[i] < ev.received[j]

\* C15: the Tags an Event carries stay the tags the status had when the
\* event was emitted, whatever AddOrUpdate and Remove do afterwards, for an
\* event not yet handed to the handler and for one the handler has got.
C15_EventTagsAreSnapshot ==
    /\ TagsInArray
    /\ \A k \in 1..Len(ev.spawned) : ev.spawned[k].view = ev.spawned[k].Tags
\* C21 (as stated): a response fetched at T0 whose NextUpdate is ninety-six
\* TickRounds later, with no cache headers and no jitter, is rescheduled
\* twenty-four TickRounds after T0, up to rounding to a TickRound multiple
C21_MidpointAfterOneDay ==
    (/\ call.fn = "updateStatus"
     /\ now = T0
     /\ call.r = Response(TRUE, LongNextUpdate, Zero)
     /\ call.seed = 0)
    => (/\ ~call.out.panic
        /\ call.out.s.NextUpdate >= T0 + 23 * TickRound
        /\ call.out.s.NextUpdate <= T0 + 25 * TickRound)

\* C21 (amended): the same response is rescheduled forty-eight TickRounds
\* after T0, the midpoint of what remains of its validity after the earliest
\* next sweep, truncated to a TickRound multiple
C21_MidpointAfterTwoDays ==
    (/\ call.fn = "updateStatus"
     /\ now = T0
     /\ call.r = Response(TRUE, LongNextUpdate, Zero)
     /\ call.seed = 0)
    => (/\ ~call.out.panic
        /\ call.out.s.NextUpdate = T0 + 48 * TickRound)

C21_Witness ==
    /\ call.fn = "updateStatus"
    /\ now = T0
    /\ call.r = Response(TRUE, LongNextUpdate, Zero)
    /\ call.seed = 0
    /\ call.out.s.Response = call.r
    /\ call.out.s.NextUpdate > now + TickRound

\* the nextUpdate the five rules give, by the first rule that matches: s the
\* status before the call, r the new response, d the jitter drawn
FirstMatchingRule(s, r, d) ==
    LET hasData == ~r.isNil /\ r.hasOCSP
        maxAge == IF r.isNil THEN Zero ELSE r.MaxAge
        stored == IF r.isNil THEN s.Response ELSE r
        earliest == now + TickRound
        h == GoDiv(r.NextUpdate - earliest, 2)
    IN  IF maxAge # Zero /\ (~hasData \/ maxAge < r.NextUpdate) THEN maxAge
        ELSE IF hasData /\ r.NextUpdate < now THEN Zero
        ELSE IF hasData THEN Truncate(earliest + h + d, TickRound)
        ELSE IF stored.isNil THEN Zero
        ELSE s.NextUpdate

\* C22: updateStatus sets nextUpdate by the first matching rule, for every
\* new response, prior response, MaxAge, OCSP NextUpdate and now, with a
\* jitter in [0, h) where the midpoint rule applies; a response with
\* NextUpdate ninety-six TickRounds ahead and MaxAge six TickRounds ahead is
\* scheduled at its MaxAge
C22_FirstMatchingRule ==
    call.fn = "updateStatus" =>
        /\ ~call.out.panic
        /\ \E d \in 0..(4 * MaxSpan) :
              /\ call.out.s.NextUpdate = FirstMatchingRule(call.s, call.r, d)
              /\ d = 0 \/ d < GoDiv(call.r.NextUpdate - (now + TickRound), 2)
        /\ call.r = Response(TRUE, LongNextUpdate, ShortMaxAge)
              => call.out.s.NextUpdate = ShortMaxAge

\* Fetch has sent its request a second time
Retried == call.fn = "Fetch" /\ Len(call.out.sent) = 2

\* C23: in the stale-revalidation retry of a GET Fetch, when the retry fails
\* to connect or its answer fails to parse, Fetch returns the first response
\* with a nil error; otherwise it returns the retry's outcome
C23_RetryFailureKeepsFirst ==
    Retried =>
        IF call.second.failed \/ parseResponse(call.second).err # ""
        THEN /\ call.out.err = ""
             /\ call.out.resp = parseResponse(call.first).resp
        ELSE /\ call.out.err = ""
             /\ call.out.resp = parseResponse(call.second).resp

\* the answer whose classification Fetch returns: the retry's when it was
\* received, the first one otherwise
Classified ==
    IF Len(call.out.sent) = 2 /\ ~call.second.failed THEN call.second ELSE call.first

\* the Content-Type headers that parse as a media type: the OCSP one without
\* parameter, and the others
OCSPMediaType == {"application/ocsp-response", "Application/OCSP-Response"}
NotOCSPMediaType == {"application/ocsp-response; charset=utf-8", "text/html"}

PreviousNextUpdate ==
    IF ~call.prev.isNil /\ call.prev.hasOCSP THEN call.prev.NextUpdate ELSE Zero

\* a time that is set and has passed
Stale(nu) == nu # Zero /\ nu < now

\* the requests Fetch has sent: one, or one and the same again with
\* Cache-Control: no-cache
SentOnce == call.out.sent = <<Plain>>
SentTwice == call.out.sent = <<Plain, NoCache>>

\* C30 (as stated): for a request whose first answer is received and parsed
\* without error, Fetch retries once with no-cache exactly when the request
\* is a GET and the parsed response's NextUpdate, or the caller's previous
\* NextUpdate, is set and before now; in every other case it sends one request
C30_RetriesWhenEitherStale ==
    (/\ call.fn = "Fetch" /\ now <= call.req.notAfter /\ call.req.urlOk
     /\ ~call.first.failed /\ parseResponse(call.first).err = "") =>
        LET p == parseResponse(call.first)
            retry == /\ call.req.body.isNil
                     /\ \/ ~p.resp.isNil /\ Stale(p.resp.NextUpdate)
                        \/ Stale(PreviousNextUpdate)
        IN  IF retry THEN SentTwice ELSE SentOnce

\* C30 (amended): Fetch retries once with no-cache exactly when the request
\* is a GET, the first answer was received and parsed without error, and the
\* NextUpdate of the parsed response, or of the previous response when the
\* answer is 304, is set and before now; it sends nothing for an expired
\* certificate or a URL it cannot use, and one request in every other case
C30_RetriesWhenStale ==
    call.fn = "Fetch" =>
        LET p == IF call.first.failed THEN Parsed(NilResponse, "connect")
                 ELSE parseResponse(call.first)
            retry == /\ call.req.body.isNil
                     /\ p.err = ""
                     /\ Stale(IF ~p.resp.isNil THEN p.resp.NextUpdate ELSE PreviousNextUpdate)
        IN  /\ Len(call.out.sent) <= 2
            /\ IF now > call.req.notAfter \/ ~call.req.urlOk THEN call.out.sent = <<>>
               ELSE IF retry THEN SentTwice
               ELSE SentOnce

\* C30 witness: a GET answered 304 for a stale previous response has been
\* sent again with no-cache, and the retry's response is returned
C30_Witness ==
    /\ call.fn = "Fetch"
    /\ call.req.body.isNil
    /\ call.first.status = 304
    /\ Stale(PreviousNextUpdate)
    /\ SentTwice
    /\ ~call.out.resp.isNil
    /\ call.out.resp.NextUpdate = FarNextUpdate

\* the entries that are http or https URLs
IsHTTP(s) == s.http \/ s.https
HTTPEntries(cert) == { k \in 1..Len(cert.OCSPServer) : IsHTTP(cert.OCSPServer[k]) }
FirstHTTP(cert) ==
    LET k == CHOOSE k \in HTTPEntries(cert) : \A j \in HTTPEntries(cert) : k <= j
    IN  cert.OCSPServer[k].text

\* every entry is long enough to hold a scheme and is a URL that parses
WellFormed(cert) ==
    \A k \in 1..Len(cert.OCSPServer) :
        cert.OCSPServer[k].len >= 8 /\ cert.OCSPServer[k].parses

\* C26: CreateRequest with an empty responderURL, given well-formed OCSPServer
\* entries, uses the first http(s) URL of the leaf, the first http(s) URL of
\* the issuer when the leaf has none, and fails with the no-responder-URL
\* error only when neither has one
C26_FallsBackToIssuer ==
    (/\ call.fn = "CreateRequest" /\ call.given.text = ""
     /\ WellFormed(call.cert) /\ WellFormed(call.issuer)) =>
        IF HTTPEntries(call.cert) # {}
        THEN /\ call.out.err = "" /\ ~call.out.panic
             /\ call.out.req.responder = FirstHTTP(call.cert)
        ELSE IF HTTPEntries(call.issuer) # {}
        THEN /\ call.out.err = "" /\ ~call.out.panic
             /\ call.out.req.responder = FirstHTTP(call.issuer)
        ELSE call.out.err = "Cannot find an OCSP URL"

\* C25: a Request carries the earlier NotAfter of its two certificates; after
\* that time Fetch fails with CertExpired and sends no HTTP request, now and
\* at every later time, whatever the previous response and the responder
C25_ExpiredNeverFetched ==
    /\ (call.fn = "CreateRequest" /\ call.out.err = "" /\ ~call.out.panic) =>
          /\ call.out.req.notAfter <= call.cert.NotAfter
          /\ call.out.req.notAfter <= call.issuer.NotAfter
          /\ call.out.req.notAfter \in {call.cert.NotAfter, call.issuer.NotAfter}
    /\ (call.fn = "Fetch" /\ now > call.req.notAfter) =>
          /\ call.out.err = "CertExpired"
          /\ call.out.resp.isNil
          /\ call.out.sent = <<>>
          /\ \A t \in now..(MaxTime + MaxSpan), prev \in PreviousResponses :
                FetchR(call.req, prev, call.first, call.second, t).sent = <<>>

\* C25 witness: Fetch was called after notAfter for a request with a usable
\* URL and a responder that answers, and has sent nothing
C25_Witness ==
    /\ call.fn = "Fetch"
    /\ now > call.req.notAfter
    /\ call.req.urlOk
    /\ ~call.first.failed /\ call.first.status = 200 /\ call.first.body = "ocsp"
    /\ call.out.err = "CertExpired"
    /\ call.out.sent = <<>>

\* the response a responder that answers well gives to update-ocsp
GoodAnswer(a) ==
    /\ ~a.failed /\ a.status = 200 /\ a.contentType = "application/ocsp-response"
    /\ a.body = "ocsp" /\ a.NextUpdate = FarNextUpdate

\* C27: for a bundle that parses and has a responder URL, whose .ocsp file is
\* absent or holds a response that needs refreshing, update-ocsp sends a
\* query, and stores the response of a responder that answers well
C27_QueriesAndStores ==
    (/\ call.fn = "update-ocsp"
     /\ call.bundle.parses
     /\ call.bundle.cert.OCSPServer # <<>>
     /\ \/ ~call.file.exists
        \/ /\ call.file.readable /\ call.file.parses
           /\ needsRefresh(call.file.ocsp, call.file.mtime, call.period, now)) =>
        /\ Len(call.out.sent) >= 1
        /\ GoodAnswer(call.first) =>
              /\ call.out.stored = Response(TRUE, FarNextUpdate, Zero)
              /\ ~call.out.failed

\* the monitored statuses whose request is equivalent to req
EquivalentTo(req) == { id \in Range(statuses) : Equivalent(req, heap[id].Request) }

\* C28: in every state, AddOrUpdate with a tag that is not indexed and a
\* request equivalent to a monitored status emits one event, with that
\* status's response and its tags (the new one among them), if and only if
\* the status holds a response, the Updater is started and the call brings no
\* cached response; every other AddOrUpdate that returns emits no event, and
\* no Remove emits an event
C28_SyntheticEventIff ==
    /\ ~crashed =>
          \A tag \in Tags, req \in Requests, resp \in CachedResponses :
             \A seed \in SeedsFor(resp) :
                LET res == AddOrUpdateOp(U, tag, req, resp, seed, NewId(U))
                    late == /\ tagToStatus[tag] = NoStatus
                            /\ \E id \in EquivalentTo(req) : ~heap[id].Response.isNil
                            /\ timer.set
                            /\ resp.isNil
                IN  (CanCall(U, tag, req) /\ ~res.panic) =>
                       IF late
                       THEN \E id \in EquivalentTo(req) :
                               res.emitted =
                                  << [id |-> id, Response |-> heap[id].Response,
                                      Tags |-> SortStrings(Append(heap[id].Tags, tag))] >>
                       ELSE res.emitted = <<>>
    /\ last.op = "Remove" => last.emitted = <<>>
    /\ (last.op = "AddOrUpdate" /\ last.emitted # <<>>) =>
          /\ Len(last.emitted) = 1
          /\ last.ret = ""
          /\ timer.set
          /\ last.emitted[1].id = tagToStatus[last.tag]
          /\ last.emitted[1].Response = heap[tagToStatus[last.tag]].Response
          /\ last.emitted[1].Tags = heap[tagToStatus[last.tag]].Tags
          /\ Len(heap[tagToStatus[last.tag]].Tags) >= 2

\* C28 witness: AddOrUpdate has just emitted the synthetic event for a tag
\* added to a monitored status of a started Updater
C28_Witness ==
    /\ last.op = "AddOrUpdate"
    /\ Len(last.emitted) = 1
    /\ timer.set
    /\ last.emitted[1].Tags = <<1, 2>>
    /\ ~last.emitted[1].Response.isNil

\* the goroutines that are inside UpdateNow with u.mu, a fetch in flight or
\* about to be
Sweeping == { g \in {"loop", "caller"} : pc[g] = "sweep" }

\* the statuses, their order and the tag index
Monitoring == <<heap, statuses, tagToStatus>>

\* C29: at most one goroutine is inside a sweep, and it is the holder of
\* u.mu; while a sweep is in progress nothing but the end of that sweep
\* changes the statuses or the tag index, so AddOrUpdate and Remove take
\* effect before the sweep starts or after it has ended
C29_OperationsSerialised ==
    /\ [](/\ Cardinality(Sweeping) <= 1
          /\ \A g \in Sweeping : pc.mu = g)
    /\ [][(Sweeping # {} /\ Monitoring' # Monitoring)
            => (/\ Sweeping' = {}
                /\ pc'.mu = ""
                /\ last'.op = "UpdateNow")]_vars

\* C29 witness: the loop waits for u.mu in its UpdateNow while a caller's
\* UpdateNow holds it, with a status due
C29_Witness ==
    /\ pc.loop = "lock"
    /\ pc.caller = "sweep"
    /\ pc.mu = "caller"
    /\ DueNow # {}

\* updateStatus reaches the midpoint rule for response r: r carries OCSP data
\* that has not expired, and its MaxAge does not take over
ByMidpoint(r) ==
    /\ ~r.isNil /\ r.hasOCSP
    /\ ~(r.MaxAge # Zero /\ r.MaxAge < r.NextUpdate)
    /\ r.NextUpdate >= now

\* C34: for every response updateStatus schedules by the midpoint rule,
\* h = (NextUpdate - (now + TickRound)) / 2 is above zero, so the jitter
\* function is never asked for a duration of zero or less and does not panic
C34_JitterDurationPositive ==
    (call.fn = "updateStatus" /\ ByMidpoint(call.r)) =>
        /\ GoDiv(call.r.NextUpdate - (now + TickRound), 2) > 0
        /\ ~call.out.panic

\* C32: every status a sweep of UpdateNow has fetched had its nextUpdate at
\* or before now when the sweep ran, and no status is fetched twice in one
\* sweep, whatever its fetch left as nextUpdate
C32_FetchedDueAndOnce ==
    sweep.who # "none" =>
        /\ \A k \in 1..Len(sweep.log) : sweep.log[k].id \in sweep.due
        /\ \A j, k \in 1..Len(sweep.log) : sweep.log[j].id = sweep.log[k].id => j = k

\* C32 witness: a sweep has fetched a status once, the fetch failed, and the
\* status is due still when UpdateNow returns
C32_Witness ==
    /\ Returned("UpdateNow")
    /\ \E k \in 1..Len(sweep.log) :
          /\ sweep.log[k].outcome = "err"
          /\ sweep.log[k].id \in Range(statuses)
          /\ heap[sweep.log[k].id].NextUpdate <= now
    /\ \E i \in Range(statuses) : heap[i].NextUpdate > now

\* C35: each time the loop reads u.timer to wait on its channel, u.timer is
\* set: Stop has not cleared it, whether Stop ran between startTimer and the
\* first wait or while the loop was in UpdateNow
C35_LoopReadsSetTimer ==
    [][(pc.loop = "eval" /\ (pc'.loop # "eval" \/ crashed'))
         => (isStarted(timer) /\ ~crashed')]_vars

\* the Updater is stopped: no timer is set and no call of Stop is under way
Stopped == ~isStarted(timer) /\ pc.stop = "idle"

\* C33: while a sweep is in progress a Stop that was called stays at
\* u.mu.Lock() and the timer stays as it is for the sweep, which ends unless
\* the process panics; on a stopped Updater no goroutine is in Start's loop,
\* so no sweep is driven by the timer until Start is called, which alone
\* brings a loop and a timer back; AddOrUpdate and Remove on a stopped
\* Updater leave it without a timer
C33_StopWaitsAndStops ==
    /\ [][(Sweeping # {} /\ pc.stop = "lock" /\ Sweeping' # {})
            => (pc'.stop = "lock" /\ (isStarted(timer') <=> isStarted(timer)))]_vars
    /\ (Sweeping # {} /\ pc.stop = "lock") ~> (Sweeping = {} \/ crashed)
    /\ [](Stopped => (pc.loop = "idle" /\ pc.loops = 0 /\ ~timer.armed))
    /\ [][(/\ Stopped
           /\ pc'.loop # "idle" \/ isStarted(timer') \/ pc'.loops # 0)
            => (last'.op = "Start" /\ last'.ret = "")]_vars
    /\ [][(Stopped /\ last'.op \in {"AddOrUpdate", "Remove"})
            => (~isStarted(timer') /\ ~timer'.armed /\ pc'.loop = "idle")]_vars

\* C33 witness: Stop has just returned on an Updater whose timer had fired
\* for a status that is due; the loop has left without a sweep
C33_Witness ==
    /\ last.op = "Stop" /\ last.ret = ""
    /\ Stopped
    /\ pc.loop = "idle"
    /\ timerC
    /\ DueNow # {}

\* the check at time t is the first of the run at or after the midpoint of
\* the validity period
FirstAfterMidpoint(t) ==
    /\ t >= Midpoint(call.resp)
    /\ \A k \in 1..Len(call.seen) : call.seen[k] < t => call.seen[k] < Midpoint(call.resp)

\* the response will have expired at the check that follows the one at t
ExpiresBeforeNext(t) == t + call.period > call.resp.NextUpdate

\* C31: in a run of checks of one response, one period apart, the file's
\* time set to the check time whenever NeedsRefresh returns true,
\* NeedsRefresh returns true at most twice up to the response's NextUpdate:
\* at the first check at or after the midpoint, and at a check after which
\* the response expires before the next one, in that order
C31_AtMostTwoRefreshes ==
    call.fn = "checks" =>
        /\ Len(call.trues) <= 2
        /\ \A k \in 1..Len(call.trues) :
              FirstAfterMidpoint(call.trues[k]) \/ ExpiresBeforeNext(call.trues[k])
        /\ Len(call.trues) = 2 =>
              /\ FirstAfterMidpoint(call.trues[1])
              /\ ExpiresBeforeNext(call.trues[2])

\* C31 witness: a run of at least four checks has reached the response's
\* last period, NeedsRefresh has returned true at the midpoint and again at
\* the last check, and false at a check in between
C31_Witness ==
    /\ call.fn = "checks"
    /\ Len(call.seen) >= 4
    /\ Len(call.trues) = 2
    /\ call.trues[1] < call.resp.NextUpdate - call.period
    /\ \E k \in 1..Len(call.seen) :
          call.trues[1] < call.seen[k] /\ call.seen[k] < call.trues[2]

\* Start's loop is running: u.timer is set and the loop's goroutine lives
Running == isStarted(timer) /\ pc.loop # "idle"

\* the status is monitored, its NextUpdate has passed, and no sweep has
\* just fetched it
Starving(i) ==
    /\ i \in DueNow
    /\ i \notin Fetched(sweep)

\* C36: while the Updater runs and nobody stops it, a monitored status whose
\* NextUpdate has passed is eventually fetched by a sweep, unless a call on
\* its own tag has removed it or given it a response that is not due,
\* whatever AddOrUpdate and Remove calls interleave and whatever the fetches
\* of the other statuses return
C36_NoStatusStarves ==
    \A i \in StatusIds :
        (Running /\ Starving(i)) ~> (i \in Fetched(sweep) \/ i \notin DueNow)

====
